---- MODULE Spec2Model ----
(***************************************************************************)
(* State-machine model of the Pinterest board harvester                    *)
(* (PinterestScraperService) and of the ZIP packaging service (ZipService).*)
(*                                                                         *)
(* Strings are sequences of atoms.  An atom is a TLA+ string that stands   *)
(* for one character ("/", ".", " ") or for a run of characters that no    *)
(* pattern of the program splits ("236x", "originals", "jpg").             *)
(***************************************************************************)
EXTENDS Integers, Sequences, FiniteSets, TLC

(***************************************************************************)
(* Bounds of the model                                                     *)
(***************************************************************************)
MaxCycles == 52      \* extract/scroll cycles explored in one harvest
MaxExtent == 2       \* scrollable extents the page can report: 1..MaxExtent
MaxBatch  == 2       \* pin wrappers visible in one extraction
MaxItems  == 2       \* images handed to one createZipArchive call
MaxLate   == 1       \* milliseconds the clock runs past one retention window
MaxShutdownCycles == 3   \* cycles of a harvest that is followed together with cleanup()
MaxCollectCycles == 3    \* cycles of a harvest whose page reads are recorded
MaxTitle == 3            \* atoms in the title of an image whose entry is named

(***************************************************************************)
(* String helpers (String.prototype.includes / replace / indexOf on atoms) *)
(***************************************************************************)
Includes(s, atom) == \E i \in 1..Len(s) : s[i] = atom

FirstIndex(s, atom) ==
    IF Includes(s, atom)
    THEN CHOOSE i \in 1..Len(s) : s[i] = atom /\ \A j \in 1..(i-1) : s[j] /= atom
    ELSE 0

\* index of the first "/" at or after position i, Len(s)+1 when there is none
NextSlash(s, i) ==
    IF \E k \in i..Len(s) : s[k] = "/"
    THEN CHOOSE k \in i..Len(s) : s[k] = "/" /\ \A j \in i..(k-1) : s[j] /= "/"
    ELSE Len(s) + 1

\* src.replace(/<tok>[^\/]*/, 'originals'): the first occurrence of tok and
\* everything after it up to the next "/" becomes the atom "originals"
ReplaceSizeToken(s, tok) ==
    LET i == FirstIndex(s, tok)
        k == NextSlash(s, i + 1)
    IN  IF i = 0 THEN s
        ELSE SubSeq(s, 1, i - 1) \o <<"originals">> \o SubSeq(s, k, Len(s))

\* str.replace(pattern, '') for a pattern that is one atom
RemoveFirst(s, atom) ==
    LET i == FirstIndex(s, atom)
    IN  IF i = 0 THEN s ELSE SubSeq(s, 1, i - 1) \o SubSeq(s, i + 1, Len(s))

(***************************************************************************)
(* PinterestScraperService.extractImagesFromPage                           *)
(***************************************************************************)
Host == "https://i.pinimg.com/"

\* the pin wrappers a page can show: [src, title] of div[data-test-id="pinWrapper"]
PinWrappers ==
    { [src |-> <<Host, "236x", "/", "a", ".", "jpg">>,           title |-> <<"cat">>],
      [src |-> <<Host, "474x", "/", "a", ".", "jpg">>,           title |-> <<>>],
      [src |-> <<Host, "originals", "/", "b", ".", "jpg">>,      title |-> <<"cat">>],
      [src |-> <<>>,                                             title |-> <<"dog">>] }

\* an extraction that keeps the URL of the page as it is
HighResUrlRaw(src) == src

\* "Convert to high resolution URL"
HighResUrl(src) ==
    IF Includes(src, "236x") THEN ReplaceSizeToken(src, "236x")
    ELSE IF Includes(src, "474x") THEN ReplaceSizeToken(src, "474x")
    ELSE src

\* the wrappers are selected by data-test-id="pinWrapper", so that is the
\* attribute value; removing 'pinWrapper-' from it leaves it as it is
WrapperTestId == <<"pinWrapper">>

\* btoa(src).slice(0, 10): ten base64 characters encode the first 7.5 bytes
\* of src, which lie inside the scheme and host of the URL
Btoa10(src) == IF src = <<>> THEN <<>> ELSE <<"b64:", src[1]>>

PinId(src) ==
    LET fromAttr == RemoveFirst(WrapperTestId, "pinWrapper-")
    IN  IF fromAttr /= <<>> THEN fromAttr ELSE Btoa10(src)

PinTitle(title) == IF title /= <<>> THEN title ELSE <<"Pinterest", " ", "Image">>

PinImageOf(w) ==
    [id        |-> PinId(w.src),
     url       |-> HighResUrl(w.src),
     thumbnail |-> w.src,
     title     |-> PinTitle(w.title)]

RECURSIVE ExtractImages(_)
\* pinWrappers.forEach: a wrapper without src is skipped, the others are pushed
ExtractImages(ws) ==
    IF ws = <<>> THEN <<>>
    ELSE IF Head(ws).src = <<>> THEN ExtractImages(Tail(ws))
    ELSE <<PinImageOf(Head(ws))>> \o ExtractImages(Tail(ws))

\* what one page.evaluate can see: up to MaxBatch wrappers, repeats allowed
Views == UNION { [1..n -> PinWrappers] : n \in 0..MaxBatch }

\* what extractImagesFromPage can return
Batches == { ExtractImages(view) : view \in Views }

(***************************************************************************)
(* PinterestScraperService.collectImages: merge of one extracted batch     *)
(***************************************************************************)
\* an insertion at the front of the collection (Array.prototype.unshift)
Unshift(seq, x) == <<x>> \o seq

\* images.push(image)
Push(seq, x) == Append(seq, x)

RECURSIVE MergeBatchNoDedup(_, _)
MergeBatchNoDedup(acc, batch) ==
    IF batch = <<>> THEN acc
    ELSE MergeBatchNoDedup([images   |-> Append(acc.images, Head(batch)),
                            seenUrls |-> acc.seenUrls \cup {Head(batch).url}],
                           Tail(batch))

RECURSIVE MergeBatch(_, _)
\* for (const image of newImages) if (!seenUrls.has(image.url)) { add; push }
MergeBatch(acc, batch) ==
    IF batch = <<>> THEN acc
    ELSE IF Head(batch).url \in acc.seenUrls
         THEN MergeBatch(acc, Tail(batch))
         ELSE MergeBatch([images   |-> Push(acc.images, Head(batch)),
                          seenUrls |-> acc.seenUrls \cup {Head(batch).url}],
                         Tail(batch))

maxScrollAttempts == 50

Max(a, b) == IF a >= b THEN a ELSE b

(***************************************************************************)
(* Harvester state                                                         *)
(***************************************************************************)
VARIABLES
    scrapingTasks,   \* Map<taskId, ScrapingProgress> of the scraper service
    hpc,             \* position of the scrapeBoard call
    images,          \* collectImages: images
    seenUrls,        \* collectImages: seenUrls
    previousHeight,  \* collectImages: previousHeight
    scrollAttempts,  \* collectImages: scrollAttempts
    cycles,          \* number of loop bodies entered by collectImages
    skipped,         \* history: some extracted image was dropped as already seen
    faults,          \* history: what the page did to this call ("private", "navigation", "selector")
    hresult          \* what scrapeBoard returned or threw

hvars == <<scrapingTasks, hpc, images, seenUrls, previousHeight,
           scrollAttempts, cycles, skipped, faults, hresult>>

HarvestId == "h1"    \* the uuid of the scrapeBoard call

Extents == 1..MaxExtent

\* an update that stores the given fields over the defaults, dropping the
\* fields stored before
UpdateScrapingProgressReplace(tasks, taskId, updates) ==
    LET fresh == [currentImages |-> 0, totalImages |-> 0,
                  status |-> "initializing", message |-> <<>>]
        merged == [f \in DOMAIN fresh |->
                      IF f \in DOMAIN updates THEN updates[f] ELSE fresh[f]]
    IN  [t \in DOMAIN tasks \cup {taskId} |-> IF t = taskId THEN merged ELSE tasks[t]]

\* PinterestScraperService.updateProgress
UpdateScrapingProgress(tasks, taskId, updates) ==
    LET currentProgress ==
            IF taskId \in DOMAIN tasks THEN tasks[taskId]
            ELSE [currentImages |-> 0, totalImages |-> 0,
                  status |-> "initializing", message |-> <<>>]
        merged == [f \in DOMAIN currentProgress |->
                      IF f \in DOMAIN updates THEN updates[f] ELSE currentProgress[f]]
    IN  [t \in DOMAIN tasks \cup {taskId} |-> IF t = taskId THEN merged ELSE tasks[t]]

HInit ==
    /\ scrapingTasks = <<>>
    /\ hpc = "idle"
    /\ images = <<>>
    /\ seenUrls = {}
    /\ previousHeight = 0
    /\ scrollAttempts = 0
    /\ cycles = 0
    /\ skipped = FALSE
    /\ faults = {}
    /\ hresult = [kind |-> "none"]

(***************************************************************************)
(* validators.isBoardPrivate                                               *)
(***************************************************************************)
ToLowerAtom(a) ==
    CASE a = "Board Is Private" -> "board is private"
      [] a = "Login To View"    -> "login to view"
      [] OTHER                  -> a

ToLower(s) == [i \in 1..Len(s) |-> ToLowerAtom(s[i])]

privateIndicators ==
    { "board is private", "private board", "login to view", "sign in to see",
      "this board is private", "board not found", "page not found" }

isBoardPrivate(htmlContent) ==
    \E indicator \in privateIndicators : Includes(ToLower(htmlContent), indicator)

\* what page.content() can return
PageContents ==
    { <<"<html>", "pins", "</html>">>,
      <<"<html>", "Board Is Private", "</html>">>,
      <<"<html>", "page not found", "</html>">> }

(***************************************************************************)
(* PinterestScraperService.scrapeBoard                                     *)
(***************************************************************************)
PrivateBoardMessage == <<"This board appears to be private or requires login">>

\* the message of puppeteer's TimeoutError for page.goto
NavigationTimeoutMessage == <<"Navigation timeout of 30000 ms exceeded">>

\* the message of puppeteer's TimeoutError for waitForSelector
SelectorTimeoutMessage == <<"Waiting for selector failed: 5000 ms exceeded">>

\* a catch block that hands back what was collected so far instead of throwing
ScrapeCatchPartial(msg) ==
    /\ scrapingTasks' = UpdateScrapingProgress(scrapingTasks, HarvestId,
                            [status |-> "failed", message |-> msg])
    /\ hpc' = "returned"
    /\ hresult' = [kind |-> "returned", images |-> images, totalImages |-> Len(images)]

\* the catch block of scrapeBoard: the snapshot becomes failed, the error is
\* re-thrown, page.close() errors are swallowed
ScrapeCatch(msg) ==
    /\ scrapingTasks' = UpdateScrapingProgress(scrapingTasks, HarvestId,
                            [status |-> "failed", message |-> msg])
    /\ hpc' = "threw"
    /\ hresult' = [kind |-> "threw", message |-> msg]

\* taskId = uuidv4(); URL validation; launchBrowser; first progress record
ScrapeStart ==
    /\ hpc = "idle"
    /\ \E valid \in BOOLEAN :
         IF valid
         THEN /\ scrapingTasks' = [t \in DOMAIN scrapingTasks \cup {HarvestId} |->
                    IF t = HarvestId
                    THEN [currentImages |-> 0, totalImages |-> 0,
                          status |-> "initializing",
                          message |-> <<"Initializing scraper...">>]
                    ELSE scrapingTasks[t]]
              /\ hpc' = "newPage"
              /\ UNCHANGED hresult
         ELSE /\ hpc' = "threw"
              /\ hresult' = [kind |-> "threw", message |-> <<"Invalid Pinterest URL">>]
              /\ UNCHANGED scrapingTasks
    /\ UNCHANGED <<images, seenUrls, previousHeight, scrollAttempts, cycles, skipped, faults>>

\* browser.newPage(), setViewport, setUserAgent, then status 'loading'
ScrapeNewPage ==
    /\ hpc = "newPage"
    /\ scrapingTasks' = UpdateScrapingProgress(scrapingTasks, HarvestId,
                            [status |-> "loading",
                             message |-> <<"Loading Pinterest board...">>])
    /\ hpc' = "goto"
    /\ UNCHANGED <<images, seenUrls, previousHeight, scrollAttempts,
                   cycles, skipped, faults, hresult>>

\* page.goto(normalizedUrl, {timeout: 30000})
ScrapeGoto ==
    /\ hpc = "goto"
    /\ \/ /\ hpc' = "content"
          /\ UNCHANGED <<scrapingTasks, faults, hresult>>
       \/ /\ faults' = faults \cup {"navigation"}
          /\ ScrapeCatch(NavigationTimeoutMessage)
    /\ UNCHANGED <<images, seenUrls, previousHeight, scrollAttempts, cycles, skipped>>

\* page.content() and the private-board check
ScrapeContent ==
    /\ hpc = "content"
    /\ \E pageContent \in PageContents :
         IF isBoardPrivate(pageContent)
         THEN /\ faults' = faults \cup {"private"}
              /\ ScrapeCatch(PrivateBoardMessage)
         ELSE /\ hpc' = "waitSelector"
              /\ UNCHANGED <<scrapingTasks, faults, hresult>>
    /\ UNCHANGED <<images, seenUrls, previousHeight, scrollAttempts, cycles, skipped>>

\* a selector wait whose second timeout is not caught
SelectorWaitUncaught(outcome) == IF outcome = "timedOut" THEN "catch" ELSE "boardInfo"

\* waitForSelector(pinWrapper).catch(() => waitForSelector(feed).catch(() => {})):
\* found or timed out, the call goes on
SelectorWait(outcome) == "boardInfo"

ScrapeWaitSelector ==
    /\ hpc = "waitSelector"
    /\ \E outcome \in {"found", "feedFound", "timedOut"} :
         /\ faults' = IF outcome = "timedOut" THEN faults \cup {"selector"} ELSE faults
         /\ IF SelectorWait(outcome) = "catch"
            THEN ScrapeCatch(SelectorTimeoutMessage)
            ELSE /\ hpc' = SelectorWait(outcome)
                 /\ UNCHANGED <<scrapingTasks, hresult>>
    /\ UNCHANGED <<images, seenUrls, previousHeight, scrollAttempts, cycles, skipped>>

\* extractBoardInfo (its own try/catch), then the prologue of collectImages
ScrapeBoardInfo ==
    /\ hpc = "boardInfo"
    /\ images' = <<>>
    /\ seenUrls' = {}
    /\ previousHeight' = 0
    /\ scrollAttempts' = 0
    /\ scrapingTasks' = UpdateScrapingProgress(scrapingTasks, HarvestId,
                            [status |-> "scrolling",
                             message |-> <<"Collecting images...">>])
    /\ hpc' = IF 0 < maxScrollAttempts THEN "extract" ELSE "close"
    /\ UNCHANGED <<cycles, skipped, faults, hresult>>

\* a loop that gives up at the second stalled cycle in a row
LoopHeadOnce(attempts) == IF attempts < 2 THEN "extract" ELSE "close"

\* the position after one loop body: while (scrollAttempts < maxScrollAttempts)
LoopHead(attempts) == IF attempts < maxScrollAttempts THEN "extract" ELSE "close"

\* a cycle that leaves out the last item of the extracted batch
HarvestExtractShortOf(newImages) ==
    /\ hpc = "extract"
    /\ cycles < MaxCycles
    /\   LET merged == MergeBatch([images |-> images, seenUrls |-> seenUrls],
                                  SubSeq(newImages, 1, Max(0, Len(newImages) - 1)))
             n      == Len(merged.images)
             known  == IF HarvestId \in DOMAIN scrapingTasks
                       THEN scrapingTasks[HarvestId].totalImages ELSE 0
         IN  /\ images' = merged.images
             /\ seenUrls' = merged.seenUrls
             /\ skipped' = (skipped \/ Len(newImages) > n - Len(images))
             /\ scrapingTasks' = UpdateScrapingProgress(scrapingTasks, HarvestId,
                                    [currentImages |-> n,
                                     totalImages   |-> Max(n, known),
                                     message       |-> <<"Found", ToString(n), "images...">>])
    /\ cycles' = cycles + 1
    /\ hpc' = "scroll"
    /\ UNCHANGED <<previousHeight, scrollAttempts, faults, hresult>>

\* extractImagesFromPage, the dedup merge and the progress update
HarvestExtractOf(newImages) ==
    /\ hpc = "extract"
    /\ cycles < MaxCycles
    /\   LET merged == MergeBatch([images |-> images, seenUrls |-> seenUrls],
                                  newImages)
             n      == Len(merged.images)
             known  == IF HarvestId \in DOMAIN scrapingTasks
                       THEN scrapingTasks[HarvestId].totalImages ELSE 0
         IN  /\ images' = merged.images
             /\ seenUrls' = merged.seenUrls
             /\ skipped' = (skipped \/ Len(newImages) > n - Len(images))
             /\ scrapingTasks' = UpdateScrapingProgress(scrapingTasks, HarvestId,
                                    [currentImages |-> n,
                                     totalImages   |-> Max(n, known),
                                     message       |-> <<"Found", ToString(n), "images...">>])
    /\ cycles' = cycles + 1
    /\ hpc' = "scroll"
    /\ UNCHANGED <<previousHeight, scrollAttempts, faults, hresult>>

HarvestExtract == \E newImages \in Batches : HarvestExtractOf(newImages)

\* previousHeight = scrollHeight; scrollTo(end); waitForTimeout(2000)
HarvestScroll ==
    /\ hpc = "scroll"
    /\ \E height \in Extents : previousHeight' = height
    /\ hpc' = "measure"
    /\ UNCHANGED <<scrapingTasks, images, seenUrls, scrollAttempts,
                   cycles, skipped, faults, hresult>>

\* a comparison that counts the stalled cycles of the whole harvest
HarvestMeasureNoResetOf(currentHeight) ==
    /\ hpc = "measure"
    /\ IF currentHeight = previousHeight
       THEN /\ scrollAttempts' = scrollAttempts + 1
            /\ hpc' = "loadMore"
       ELSE /\ scrollAttempts' = scrollAttempts
            /\ hpc' = LoopHead(scrollAttempts)
    /\ UNCHANGED <<scrapingTasks, images, seenUrls, previousHeight,
                   cycles, skipped, faults, hresult>>

\* currentHeight = scrollHeight; compare with previousHeight
HarvestMeasureOf(currentHeight) ==
    /\ hpc = "measure"
    /\ IF currentHeight = previousHeight
       THEN /\ scrollAttempts' = scrollAttempts + 1
            /\ hpc' = "loadMore"
       ELSE /\ scrollAttempts' = 0
            /\ hpc' = LoopHead(0)
    /\ UNCHANGED <<scrapingTasks, images, seenUrls, previousHeight,
                   cycles, skipped, faults, hresult>>

\* a comparison that does not count the stalled cycles
HarvestMeasureUncounted ==
    /\ hpc = "measure"
    /\ \E currentHeight \in Extents :
         hpc' = IF currentHeight = previousHeight THEN "loadMore" ELSE LoopHead(0)
    /\ UNCHANGED <<scrapingTasks, images, seenUrls, previousHeight, scrollAttempts,
                   cycles, skipped, faults, hresult>>

HarvestMeasure == \E currentHeight \in Extents : HarvestMeasureOf(currentHeight)

\* a probe that resets the stall counter when the button was clicked
HarvestLoadMoreResetOf(loadMoreClicked) ==
    /\ hpc = "loadMore"
    /\ scrollAttempts' = IF loadMoreClicked THEN 0 ELSE scrollAttempts
    /\ hpc' = IF loadMoreClicked THEN LoopHead(0) ELSE "close"
    /\ UNCHANGED <<scrapingTasks, images, seenUrls, previousHeight,
                   cycles, skipped, faults, hresult>>

\* the "Load more" button probe: break when nothing was clicked
HarvestLoadMoreOf(loadMoreClicked) ==
    /\ hpc = "loadMore"
    /\ hpc' = IF loadMoreClicked THEN LoopHead(scrollAttempts) ELSE "close"
    /\ UNCHANGED <<scrapingTasks, images, seenUrls, previousHeight, scrollAttempts,
                   cycles, skipped, faults, hresult>>

HarvestLoadMore == \E loadMoreClicked \in BOOLEAN : HarvestLoadMoreOf(loadMoreClicked)

\* a completed update that relies on the totalImages of the loop's last update
CompletedUpdateNoTotal(n) ==
    [status        |-> "completed",
     message       |-> <<"Successfully collected", ToString(n), "images">>,
     currentImages |-> n]

\* the fields of the update made after the harvest loop
CompletedUpdate(n) ==
    [status        |-> "completed",
     message       |-> <<"Successfully collected", ToString(n), "images">>,
     currentImages |-> n,
     totalImages   |-> n]

\* page.close() and the completed snapshot
ScrapeClose ==
    /\ hpc = "close"
    /\ scrapingTasks' = UpdateScrapingProgress(scrapingTasks, HarvestId,
                            CompletedUpdate(Len(images)))
    /\ hpc' = "notify"
    /\ UNCHANGED <<images, seenUrls, previousHeight, scrollAttempts,
                   cycles, skipped, faults, hresult>>

\* the message of an error thrown by the caller's onProgress function
ObserverErrorMessage == <<"observer error">>

\* onProgress?.(completed snapshot), then the returned ScrapingResult; the
\* call is inside the try block, so an observer that throws lands in catch
ScrapeNotify ==
    /\ hpc = "notify"
    /\ \E observerThrows \in BOOLEAN :
         IF observerThrows
         THEN ScrapeCatch(ObserverErrorMessage)
         ELSE /\ hpc' = "returned"
              /\ hresult' = [kind |-> "returned", images |-> images,
                             totalImages |-> Len(images)]
              /\ UNCHANGED scrapingTasks
    /\ UNCHANGED <<images, seenUrls, previousHeight, scrollAttempts, cycles, skipped, faults>>

\* a page-capability call throws (driver failure): control goes to the catch
ScrapeDriverFailure ==
    /\ hpc \in {"newPage", "content", "extract", "scroll", "measure", "loadMore", "close"}
    /\ ScrapeCatch(<<"Protocol error">>)
    /\ UNCHANGED <<images, seenUrls, previousHeight, scrollAttempts, cycles, skipped, faults>>

\* PinterestScraperService.cleanup: scrapingTasks.clear(); it is another
\* handler, so it cannot run between the completed update and the
\* synchronous observer call that follows it
ScraperCleanup ==
    /\ hpc /= "notify"
    /\ DOMAIN scrapingTasks /= {}
    /\ scrapingTasks' = <<>>
    /\ UNCHANGED <<hpc, images, seenUrls, previousHeight, scrollAttempts,
                   cycles, skipped, faults, hresult>>

\* one scrapeBoard call
HNext ==
    \/ ScrapeStart
    \/ ScrapeNewPage
    \/ ScrapeGoto
    \/ ScrapeContent
    \/ ScrapeWaitSelector
    \/ ScrapeBoardInfo
    \/ HarvestExtract
    \/ HarvestScroll
    \/ HarvestMeasure
    \/ HarvestLoadMore
    \/ ScrapeClose
    \/ ScrapeNotify
    \/ ScrapeDriverFailure

\* what extractImagesFromPage returns on a board of one pin
OnePinBatches ==
    { ExtractImages(view) :
        view \in { v \in Views : \A i \in 1..Len(v) : v[i].src = <<Host, "236x", "/", "a", ".", "jpg">> } }

\* the scraper service: a scrapeBoard call and cleanup() at shutdown
ScraperNext ==
    \/ HNext
    \/ ScraperCleanup

(***************************************************************************)
(* ZipService: pure helpers                                                *)
(***************************************************************************)
AlnumAtoms == {"a", "b", "c", "v", "jpg", "png", "PNG", "txt", "236x", "474x", "originals"}

LowerAtom(a) == IF a = "PNG" THEN "png" ELSE a

\* end of the maximal run of alphanumeric atoms that starts at position i
RECURSIVE AlnumRunEnd(_, _)
AlnumRunEnd(s, i) ==
    IF i + 1 <= Len(s) /\ s[i + 1] \in AlnumAtoms THEN AlnumRunEnd(s, i + 1) ELSE i

\* /\.([a-zA-Z0-9]+)(?:[#?]|$)/ matches at position i of url
ExtensionAt(url, i) ==
    /\ url[i] = "."
    /\ i + 1 <= Len(url)
    /\ url[i + 1] \in AlnumAtoms
    /\ LET e == AlnumRunEnd(url, i + 1)
       IN  e = Len(url) \/ url[e + 1] \in {"#", "?"}

\* ZipService.getFileExtension: match[1].toLowerCase() or null (here <<>>)
getFileExtension(url) ==
    IF \E i \in 1..Len(url) : ExtensionAt(url, i)
    THEN LET i == CHOOSE k \in 1..Len(url) :
                      ExtensionAt(url, k) /\ \A j \in 1..(k - 1) : ~ExtensionAt(url, j)
             e == AlnumRunEnd(url, i + 1)
         IN  [k \in 1..(e - i) |-> LowerAtom(url[i + k])]
    ELSE <<>>

\* [<>:"/\\|?*\x00-\x1F]
HostileAtoms == {"<", ">", ":", "\"", "/", "\\", "|", "?", "*", "\t", "\n"}

\* \s after the control characters are gone
SpaceAtoms == {" "}

\* number of characters an atom stands for
CharLen(a) ==
    CASE a \in {"jpg", "png", "PNG", "txt", "cat", "dog"} -> 3
      [] a \in {"jp", "pn", "ca", "xx"} -> 2
      [] a = "xxx"       -> 3
      [] a = "xxxx"      -> 4
      [] a = "Image"     -> 5
      [] a = "image-"    -> 6
      [] a = "failed-"   -> 7
      [] a = "Pinterest" -> 9
      [] a = "x96"       -> 96
      [] OTHER           -> 1

\* the first n characters of an atom that is cut by substring()
AtomPrefix(a, n) ==
    CASE a \in {"jpg"} /\ n = 1 -> "j"
      [] a \in {"jpg"} /\ n = 2 -> "jp"
      [] a \in {"png"} /\ n = 1 -> "p"
      [] a \in {"png"} /\ n = 2 -> "pn"
      [] a \in {"cat"} /\ n = 1 -> "c"
      [] a \in {"cat"} /\ n = 2 -> "ca"
      [] a = "x96" /\ n = 1 -> "x"
      [] a = "x96" /\ n = 2 -> "xx"
      [] a = "x96" /\ n = 3 -> "xxx"
      [] a = "x96" /\ n = 4 -> "xxxx"
      [] OTHER -> "~cut"

\* .replace(/[<>:"/\\|?*\x00-\x1F]/g, '_')
ReplaceHostile(s) == [i \in 1..Len(s) |-> IF s[i] \in HostileAtoms THEN "_" ELSE s[i]]

RECURSIVE StripLeadingDots(_)
\* .replace(/^\.+/, '')
StripLeadingDots(s) ==
    IF s /= <<>> /\ Head(s) = "." THEN StripLeadingDots(Tail(s)) ELSE s

RECURSIVE CollapseSpaces(_)
\* .replace(/\s+/g, '-')
CollapseSpaces(s) ==
    IF s = <<>> THEN <<>>
    ELSE IF Head(s) \in SpaceAtoms
         THEN IF Len(s) >= 2 /\ s[2] \in SpaceAtoms
              THEN CollapseSpaces(Tail(s))
              ELSE <<"-">> \o CollapseSpaces(Tail(s))
         ELSE <<Head(s)>> \o CollapseSpaces(Tail(s))

RECURSIVE TakeChars(_, _)
\* .substring(0, n)
TakeChars(s, n) ==
    IF s = <<>> \/ n <= 0 THEN <<>>
    ELSE IF CharLen(Head(s)) <= n
         THEN <<Head(s)>> \o TakeChars(Tail(s), n - CharLen(Head(s)))
         ELSE <<AtomPrefix(Head(s), n)>>

FilenameLimit == 100

\* a sanitizer that leaves the leading dots where they are
sanitizeFilenameKeepDots(filename) ==
    TakeChars(CollapseSpaces(ReplaceHostile(filename)), FilenameLimit)

\* ZipService.sanitizeFilename
sanitizeFilename(filename) ==
    TakeChars(CollapseSpaces(StripLeadingDots(ReplaceHostile(filename))), FilenameLimit)

\* the archive entry of a retrieved image: title (or image-<n>) + "." + extension
ImageEntryName(image, index) ==
    LET ext  == IF getFileExtension(image.url) /= <<>>
                THEN getFileExtension(image.url) ELSE <<"jpg">>
        base == IF image.title /= <<>> THEN image.title
                ELSE <<"image-", ToString(index + 1)>>
    IN  sanitizeFilename(base \o <<".">> \o ext)

\* the archive entry of a failed retrieval
PlaceholderName(index) == <<"failed-", ToString(index + 1), ".", "txt">>

\* images.filter(img => imageIds.includes(img.id))
RECURSIVE FilterByIds(_, _)
FilterByIds(imgs, imageIds) ==
    IF imgs = <<>> THEN <<>>
    ELSE IF Includes(imageIds, Head(imgs).id)
         THEN <<Head(imgs)>> \o FilterByIds(Tail(imgs), imageIds)
         ELSE FilterByIds(Tail(imgs), imageIds)

\* a filter that falls back to every image when no id matches
FilterImagesFallback(imgs, imageIds) ==
    IF Len(imageIds) > 0 /\ FilterByIds(imgs, imageIds) /= <<>>
    THEN FilterByIds(imgs, imageIds) ELSE imgs

\* createZipArchive: imageIds.length > 0 ? images.filter(...) : images
FilterImages(imgs, imageIds) ==
    IF Len(imageIds) > 0 THEN FilterByIds(imgs, imageIds) ELSE imgs

\* Math.round((a / b) * k) for non-negative a and positive b
RoundRatio(a, b, k) == (2 * a * k + b) \div (2 * b)

(***************************************************************************)
(* ZipService state                                                        *)
(***************************************************************************)
VARIABLES
    now,                \* Date.now()
    zipTasks,           \* Map<taskId, ZipTask>
    progressCallbacks,  \* keys of Map<taskId, callback>
    files,              \* download directory: taskId of <taskId>.zip -> size
    gen,                \* per createZipArchive call: locals of the call and its archive
    observed,           \* per task: the last snapshot its progress callback received
    timers,             \* pending setTimeout reclaims: [taskId, at]
    cleanups,           \* running cleanupTask invocations, by caller
    sweep,              \* the cleanupExpired call
    reader,             \* the getDownloadStream call
    zresult             \* outcome of the service call that finished in this step

zvars == <<now, zipTasks, progressCallbacks, files, gen, observed,
           timers, cleanups, sweep, reader, zresult>>

VARIABLES
    pread               \* the progress read that finished last, while what it read still stands

pvars == <<pread>>

VARIABLES
    batch,              \* what the extractImagesFromPage call of the last step returned
    stalls,             \* per measured cycle: currentHeight === previousHeight
    clicked             \* the loadMoreClicked of the last step

ovars == <<batch, stalls, clicked>>

vars == <<hvars, zvars, pvars, ovars>>

RetentionMs == 24 * 60 * 60 * 1000

ZipId == "z1"        \* the uuid of the accepted createZipArchive call

TaskIds == {ZipId}

Put(f, k, v) == [x \in DOMAIN f \cup {k} |-> IF x = k THEN v ELSE f[x]]

Drop(f, k) == [x \in DOMAIN f \ {k} |-> f[x]]

\* images a caller can pass: harvested ones and one supplied by a client
ZipPool ==
    { PinImageOf([src |-> <<Host, "236x", "/", "a", ".", "jpg">>, title |-> <<"cat">>]),
      PinImageOf([src |-> <<Host, "originals", "/", "b", ".", "jpg">>, title |-> <<"cat">>]),
      [id |-> <<"pin-3">>, url |-> <<Host, "originals", "/", "c", ".", "PNG", "?", "v">>,
       thumbnail |-> <<>>, title |-> <<>>] }

\* the order in which the board lists its images
PoolOrder(img) ==
    CASE img.id = <<"pin-3">> -> 3
      [] Includes(img.url, "a") -> 1
      [] OTHER -> 2

ImageLists(maxImages) ==
    { l \in UNION { [1..n -> ZipPool] : n \in 0..maxImages } :
        \A i, j \in 1..Len(l) : i < j => PoolOrder(l[i]) < PoolOrder(l[j]) }

IdLists == { <<>>, << <<"pinWrapper">> >>, << <<"unknown">> >> }

\* the image lists of a packaging call
PackagingImages == ImageLists(MaxItems)

\* the calls that make the artifact whose life is followed: the first image
\* of the board or none, no selection
LifecycleImages ==
    { l \in ImageLists(1) : \A i \in 1..Len(l) : PoolOrder(l[i]) = 1 }

LifecycleIds == { <<>> }

\* a getProgress that reports the state of the running generation
getProgressLive(tasks, taskId) ==
    IF taskId \in DOMAIN tasks
    THEN [present |-> TRUE, taskId |-> taskId, progress |-> 0,
          status |-> IF taskId \in DOMAIN gen /\ gen[taskId].errored
                     THEN "failed" ELSE "pending",
          downloadedCount |-> 0, totalCount |-> Len(tasks[taskId].images)]
    ELSE [present |-> FALSE]

\* ZipService.getProgress
getProgress(tasks, taskId) ==
    IF taskId \in DOMAIN tasks
    THEN [present |-> TRUE, taskId |-> taskId, progress |-> 0, status |-> "pending",
          downloadedCount |-> 0, totalCount |-> Len(tasks[taskId].images)]
    ELSE [present |-> FALSE]

\* ZipService.updateProgress: the registered callback receives the merged snapshot
EmitProgress(obs, cbs, tasks, taskId, updates) ==
    IF taskId \in cbs
    THEN LET currentProgress ==
                 IF getProgress(tasks, taskId).present
                 THEN getProgress(tasks, taskId)
                 ELSE [present |-> FALSE, taskId |-> taskId, progress |-> 0,
                       status |-> "pending", downloadedCount |-> 0, totalCount |-> 0]
             snap == [f \in {"taskId", "progress", "status", "downloadedCount", "totalCount"} |->
                         IF f \in DOMAIN updates THEN updates[f] ELSE currentProgress[f]]
         IN  Put(obs, taskId, snap)
    ELSE obs

IdleReader == [pc |-> "idle", taskId |-> "", exists |-> FALSE, calledAt |-> 0]

\* no service call finished in this step
NoResult == [op |-> "none"]

ZInit ==
    /\ now = 0
    /\ zipTasks = <<>>
    /\ progressCallbacks = {}
    /\ files = <<>>
    /\ gen = <<>>
    /\ observed = <<>>
    /\ timers = {}
    /\ cleanups = <<>>
    /\ sweep = [pc |-> "idle", queue |-> <<>>]
    /\ reader = IdleReader
    /\ zresult = NoResult

(***************************************************************************)
(* ZipService.cleanupTask                                                  *)
(***************************************************************************)
Caller(kind, id) == [kind |-> kind, id |-> id]

\* the continuation of the caller that awaited cleanupTask
ResumeCaller(c) ==
    CASE c.kind = "read" ->
           /\ reader' = IdleReader
           /\ zresult' = [op |-> "read", taskId |-> reader.taskId, outcome |-> "Expired",
                          calledAt |-> reader.calledAt,
                          fileExists |-> reader.taskId \in DOMAIN files']
           /\ UNCHANGED <<sweep, gen>>
      [] c.kind = "sweep" ->
           /\ sweep' = [pc |-> "next", queue |-> Tail(sweep.queue)]
           /\ UNCHANGED <<reader, gen>>
           /\ zresult' = NoResult
      [] c.kind = "catch" ->
           /\ gen' = [gen EXCEPT ![c.id].pc = "threw"]
           /\ zresult' = [op |-> "create", taskId |-> c.id, outcome |-> gen[c.id].error]
           /\ UNCHANGED <<reader, sweep>>
      [] OTHER ->
           /\ UNCHANGED <<reader, sweep, gen>>
           /\ zresult' = NoResult

\* the call of cleanupTask(taskId) up to its first await; the caller c is
\* suspended until the invocation ends
CallCleanupTask(c, taskId) ==
    IF taskId \in DOMAIN zipTasks
    THEN /\ cleanups' = Put(cleanups, c, [taskId |-> taskId, pc |-> "pathExists"])
         /\ UNCHANGED <<zipTasks, progressCallbacks, files>>
    ELSE /\ UNCHANGED <<cleanups, zipTasks, progressCallbacks, files>>

\* fs.pathExists(task.outputPath)
CleanupPathExists(c) ==
    /\ c \in DOMAIN cleanups
    /\ cleanups[c].pc = "pathExists"
    /\ cleanups' = [cleanups EXCEPT ![c].pc =
                        IF cleanups[c].taskId \in DOMAIN files THEN "unlink" ELSE "delete"]
    /\ UNCHANGED <<now, zipTasks, progressCallbacks, files, gen, observed,
                   timers, sweep, reader>>
    /\ zresult' = NoResult

\* what follows fs.unlink when its error is not caught
AfterUnlinkUncaught(ok) == IF ok THEN "delete" ELSE "threw"

\* what follows fs.unlink: its error is caught and logged
AfterUnlink(ok) == "delete"

\* fs.unlink(task.outputPath): removes the file, or fails (file already gone,
\* or an I/O error that leaves it in place)
CleanupUnlink(c) ==
    /\ c \in DOMAIN cleanups
    /\ cleanups[c].pc = "unlink"
    /\ LET t == cleanups[c].taskId
       IN  \/ /\ t \in DOMAIN files
              /\ files' = Drop(files, t)
              /\ cleanups' = [cleanups EXCEPT ![c].pc = AfterUnlink(TRUE)]
           \/ /\ files' = files
              /\ cleanups' = [cleanups EXCEPT ![c].pc = AfterUnlink(FALSE)]
    /\ UNCHANGED <<now, zipTasks, progressCallbacks, gen, observed, timers,
                   sweep, reader>>
    /\ zresult' = NoResult

\* zipTasks.delete(taskId); progressCallbacks.delete(taskId); the caller resumes
CleanupDelete(c) ==
    /\ c \in DOMAIN cleanups
    /\ cleanups[c].pc = "delete"
    /\ zipTasks' = Drop(zipTasks, cleanups[c].taskId)
    /\ progressCallbacks' = progressCallbacks \ {cleanups[c].taskId}
    /\ cleanups' = Drop(cleanups, c)
    /\ UNCHANGED files
    /\ ResumeCaller(c)
    /\ UNCHANGED <<now, observed, timers>>

(***************************************************************************)
(* ZipService.createZipArchive and generateZip                             *)
(***************************************************************************)
\* a join that fires as soon as one retrieval has settled (Promise.race)
AllSettledAny(g) == \E i \in 1..Len(g.retr) : g.retr[i] /= "inflight"

\* Promise.all(downloadPromises) has resolved
AllSettled(g) == \A i \in 1..Len(g.retr) : g.retr[i] /= "inflight"

InFlight(g) == { i \in 1..Len(g.retr) : g.retr[i] = "inflight" }

\* images.map(async ...): every callback runs up to its axios call at once
LaunchAll(n) == [i \in 1..n |-> "inflight"]

\* milliseconds the clock can advance between the Date.now() that fixes
\* expiresAt and the new Date() that fixes createdAt
ClockReadGaps == {0, 1}

\* the call up to its first await: filter, empty check, registration, and the
\* synchronous part of generateZip (output stream, archive, one request per
\* image); gap is the time that passes between its two readings of the clock
CreateZipArchive(imgs, imageIds, withCallback, gap) ==
    LET filteredImages == FilterImages(imgs, imageIds)
        taskId         == ZipId
        totalCount     == Len(filteredImages)
        task == [taskId |-> taskId, boardId |-> "board", imageIds |-> imageIds,
                 images |-> filteredImages, outputPath |-> taskId,
                 createdAt |-> now + gap, expiresAt |-> now + RetentionMs]
        callbacks == IF withCallback THEN progressCallbacks \cup {taskId}
                     ELSE progressCallbacks
    IN  IF Len(filteredImages) = 0
        THEN /\ zresult' = [op |-> "create", outcome |-> "EmptySelection"]
             /\ gap = 0
             /\ UNCHANGED <<now, zipTasks, progressCallbacks, files, gen, observed>>
        ELSE /\ taskId \notin DOMAIN gen
             /\ now + gap <= RetentionMs + MaxLate
             /\ (now + gap) % RetentionMs <= MaxLate
             /\ now' = now + gap
             /\ zipTasks' = Put(zipTasks, taskId, task)
             /\ progressCallbacks' = callbacks
             /\ files' = Put(files, taskId, 0)
             /\ gen' = Put(gen, taskId,
                           [pc |-> "generating",
                            args |-> [images |-> imgs, imageIds |-> imageIds],
                            images |-> filteredImages,
                            retr |-> LaunchAll(totalCount),
                            entries |-> <<>>, downloadedCount |-> 0, processed |-> 0,
                            finalized |-> FALSE, closed |-> FALSE, errored |-> FALSE,
                            promise |-> "pending", expiresAt |-> now + RetentionMs,
                            error |-> "none", fileSize |-> 0])
             /\ observed' = EmitProgress(observed, callbacks, zipTasks', taskId,
                                [progress |-> RoundRatio(0, totalCount, 50),
                                 status |-> "downloading",
                                 downloadedCount |-> 0, totalCount |-> totalCount])
             /\ zresult' = NoResult

\* the clock does not matter to the packaging of one call
NoClockReadGap == {0}

ZipCreate(imageLists, idLists, gaps) ==
    /\ \E imgs \in imageLists, imageIds \in idLists, withCallback \in BOOLEAN,
          gap \in gaps :
         CreateZipArchive(imgs, imageIds, withCallback, gap)
    /\ UNCHANGED <<timers, cleanups, sweep, reader>>

\* axios resolves for image i: the response stream is appended under the
\* sanitized file name and downloadedCount is incremented
RetrievalSucceeds(t, i) ==
    /\ t \in DOMAIN gen
    /\ i \in InFlight(gen[t])
    /\ gen' = [gen EXCEPT
                 ![t].retr[i] = "ok",
                 ![t].entries = Append(@, [name  |-> ImageEntryName(gen[t].images[i], i - 1),
                                           kind  |-> "image",
                                           index |-> i,
                                           url   |-> gen[t].images[i].url]),
                 ![t].downloadedCount = @ + 1]
    /\ UNCHANGED <<now, zipTasks, progressCallbacks, files, observed,
                   timers, cleanups, sweep, reader>>
    /\ zresult' = NoResult

\* a retrieval whose error is not caught: it rejects the whole generation
CatchRetrievalRethrow(g, i) ==
    [g EXCEPT !.retr[i] = "failed", !.promise = "rejected",
              !.error = "RetrievalError", !.pc = "threw"]

\* the catch of one retrieval: the placeholder entry replaces the image
CatchRetrieval(g, i) ==
    [g EXCEPT !.retr[i] = "failed",
              !.entries = Append(@, [name  |-> PlaceholderName(i - 1),
                                     kind  |-> "placeholder",
                                     index |-> i,
                                     url   |-> g.images[i].url])]

\* axios rejects for image i
RetrievalFails(t, i) ==
    /\ t \in DOMAIN gen
    /\ i \in InFlight(gen[t])
    /\ gen' = [gen EXCEPT ![t] = CatchRetrieval(gen[t], i)]
    /\ UNCHANGED <<now, zipTasks, progressCallbacks, files, observed,
                   timers, cleanups, sweep, reader>>
    /\ zresult' = NoResult

\* archive.on('progress'): one more entry has been written to the output
ArchiveProgress(t) ==
    /\ t \in DOMAIN gen
    /\ ~gen[t].closed
    /\ gen[t].processed < Len(gen[t].entries)
    /\ gen' = [gen EXCEPT ![t].processed = @ + 1]
    /\ files' = IF t \in DOMAIN files THEN [files EXCEPT ![t] = @ + 1] ELSE files
    /\ observed' = EmitProgress(observed, progressCallbacks, zipTasks, t,
                        [progress |-> RoundRatio(gen[t].downloadedCount, Len(gen[t].images), 100),
                         status |-> "compressing",
                         downloadedCount |-> gen[t].downloadedCount,
                         totalCount |-> Len(gen[t].images)])
    /\ UNCHANGED <<now, zipTasks, progressCallbacks, timers, cleanups,
                   sweep, reader>>
    /\ zresult' = NoResult

\* Promise.all(downloadPromises).then(() => archive.finalize())
ArchiveFinalize(t) ==
    /\ t \in DOMAIN gen
    /\ AllSettled(gen[t])
    /\ ~gen[t].finalized
    /\ gen' = [gen EXCEPT ![t].finalized = TRUE]
    /\ UNCHANGED <<now, zipTasks, progressCallbacks, files, observed,
                   timers, cleanups, sweep, reader>>
    /\ zresult' = NoResult

\* output.on('close'): the completed snapshot, then resolve()
OutputClose(t) ==
    /\ t \in DOMAIN gen
    /\ gen[t].finalized
    /\ ~gen[t].closed
    /\ gen[t].processed = Len(gen[t].entries)
    /\ gen' = [gen EXCEPT
                 ![t].closed = TRUE,
                 ![t].promise = IF @ = "pending" THEN "resolved" ELSE @,
                 ![t].pc = IF gen[t].promise = "pending" THEN "stat" ELSE @]
    /\ observed' = EmitProgress(observed, progressCallbacks, zipTasks, t,
                        [progress |-> 100, status |-> "completed",
                         downloadedCount |-> Len(gen[t].images),
                         totalCount |-> Len(gen[t].images)])
    /\ UNCHANGED <<now, zipTasks, progressCallbacks, files, timers,
                   cleanups, sweep, reader>>
    /\ zresult' = NoResult

\* the catch block of createZipArchive: await cleanupTask(taskId); throw error
EnterCatch(t, error) ==
    IF t \in DOMAIN zipTasks
    THEN /\ gen' = [gen EXCEPT ![t].errored = (@ \/ error = "ArchiveError"),
                               ![t].promise = IF error = "ArchiveError" THEN "rejected" ELSE @,
                               ![t].error = error,
                               ![t].pc = "catch"]
         /\ CallCleanupTask(Caller("catch", t), t)
         /\ zresult' = NoResult
    ELSE /\ gen' = [gen EXCEPT ![t].errored = (@ \/ error = "ArchiveError"),
                               ![t].promise = IF error = "ArchiveError" THEN "rejected" ELSE @,
                               ![t].error = error,
                               ![t].pc = "threw"]
         /\ zresult' = [op |-> "create", taskId |-> t, outcome |-> error]
         /\ UNCHANGED <<cleanups, zipTasks, progressCallbacks, files>>

\* archive.on('error'): the failed snapshot, then reject(err); createZipArchive
\* enters its catch
ArchiveError(t) ==
    /\ t \in DOMAIN gen
    /\ ~gen[t].closed
    /\ ~gen[t].errored
    /\ observed' = EmitProgress(observed, progressCallbacks, zipTasks, t,
                        [progress |-> 0, status |-> "failed",
                         downloadedCount |-> 0, totalCount |-> Len(gen[t].images)])
    /\ EnterCatch(t, "ArchiveError")
    /\ UNCHANGED <<now, timers, sweep, reader>>

\* fs.stat(outputPath), scheduleCleanup(taskId) and the returned handle; a
\* missing file makes stat throw into the catch
ZipStat(t) ==
    /\ t \in DOMAIN gen
    /\ gen[t].pc = "stat"
    /\ IF t \in DOMAIN files
       THEN /\ gen' = [gen EXCEPT ![t].pc = "returned", ![t].fileSize = files[t]]
            /\ timers' = IF t \in DOMAIN zipTasks /\ zipTasks[t].expiresAt - now > 0
                         THEN timers \cup {[taskId |-> t, at |-> zipTasks[t].expiresAt]}
                         ELSE timers
            /\ zresult' = [op |-> "create", taskId |-> t, outcome |-> "returned"]
            /\ UNCHANGED <<cleanups, zipTasks, progressCallbacks, files>>
       ELSE /\ timers' = timers
            /\ EnterCatch(t, "StatError")
    /\ UNCHANGED <<now, observed, sweep, reader>>

(***************************************************************************)
(* Clock, scheduled reclaim, sweep                                         *)
(***************************************************************************)
TickSteps == {1, RetentionMs}

Tick ==
    /\ \E d \in TickSteps :
         /\ now + d <= RetentionMs + MaxLate
         /\ (now + d) % RetentionMs <= MaxLate
         /\ now' = now + d
    /\ UNCHANGED <<zipTasks, progressCallbacks, files, gen, observed,
                   timers, cleanups, sweep, reader>>
    /\ zresult' = NoResult

\* the setTimeout callback of scheduleCleanup: cleanupTask(taskId), not awaited
TimerFires(tm) ==
    /\ tm \in timers
    /\ now >= tm.at
    /\ timers' = timers \ {tm}
    /\ CallCleanupTask(Caller("timer", tm.taskId), tm.taskId)
    /\ UNCHANGED <<now, gen, observed, sweep, reader>>
    /\ zresult' = NoResult

\* the ids of the tasks with now > expiresAt, in Map order
ExpiredIds(tasks) ==
    IF ZipId \in DOMAIN tasks /\ now > tasks[ZipId].expiresAt THEN <<ZipId>> ELSE <<>>

\* one iteration of "for (const taskId of expiredTasks) await cleanupTask(taskId)"
SweepStep(queue) ==
    IF queue = <<>>
    THEN /\ sweep' = [pc |-> "idle", queue |-> <<>>]
         /\ zresult' = [op |-> "sweep", outcome |-> "returned"]
         /\ UNCHANGED <<cleanups, zipTasks, progressCallbacks, files>>
    ELSE /\ zresult' = NoResult
         /\ CallCleanupTask(Caller("sweep", ""), Head(queue))
         /\ sweep' = IF Head(queue) \in DOMAIN zipTasks
                     THEN [pc |-> "awaiting", queue |-> queue]
                     ELSE [pc |-> "next", queue |-> Tail(queue)]

\* ZipService.cleanupExpired up to its first await
CleanupExpired ==
    /\ sweep.pc = "idle"
    /\ SweepStep(ExpiredIds(zipTasks))
    /\ UNCHANGED <<now, gen, observed, timers, reader>>

\* the loop of cleanupExpired after an awaited cleanupTask
CleanupExpiredNext ==
    /\ sweep.pc = "next"
    /\ SweepStep(sweep.queue)
    /\ UNCHANGED <<now, gen, observed, timers, reader>>

(***************************************************************************)
(* ZipService.getDownloadStream                                            *)
(***************************************************************************)
\* the branch taken before the first await
StreamBranch(hasTask, expired) ==
    IF ~hasTask THEN "NotFound"
    ELSE IF expired THEN "Expired" ELSE "pathExists"

GetDownloadStream(taskId) ==
    /\ reader.pc = "idle"
    /\ LET hasTask == taskId \in DOMAIN zipTasks
           expired == hasTask /\ now > zipTasks[taskId].expiresAt
           branch  == StreamBranch(hasTask, expired)
       IN  CASE branch = "NotFound" ->
                  /\ zresult' = [op |-> "read", taskId |-> taskId, outcome |-> "NotFound",
                                 calledAt |-> now, fileExists |-> taskId \in DOMAIN files]
                  /\ UNCHANGED <<reader, cleanups, zipTasks, progressCallbacks, files>>
             [] branch = "Expired" ->
                  /\ reader' = [pc |-> "cleanup", taskId |-> taskId, exists |-> FALSE,
                                calledAt |-> now]
                  /\ CallCleanupTask(Caller("read", ""), taskId)
                  /\ zresult' = NoResult
             [] OTHER ->
                  /\ reader' = [pc |-> "pathExists", taskId |-> taskId, exists |-> FALSE,
                                calledAt |-> now]
                  /\ UNCHANGED <<cleanups, zipTasks, progressCallbacks, files>>
                  /\ zresult' = NoResult
    /\ UNCHANGED <<now, gen, observed, timers, sweep>>

\* fs.pathExists(task.outputPath)
StreamPathExists ==
    /\ reader.pc = "pathExists"
    /\ reader' = [reader EXCEPT !.pc = "open", !.exists = reader.taskId \in DOMAIN files]
    /\ UNCHANGED <<now, zipTasks, progressCallbacks, files, gen, observed,
                   timers, cleanups, sweep>>
    /\ zresult' = NoResult

\* a read that opens the file without looking at the pathExists result
StreamOutcomeNoCheck(exists) == "stream"

\* if (!(await fs.pathExists(...))) throw 'Download file not found'
StreamOutcome(exists) == IF exists THEN "stream" ELSE "NotFound"

\* the continuation: the error or fs.createReadStream
StreamOpen ==
    /\ reader.pc = "open"
    /\ reader' = IdleReader
    /\ zresult' = [op |-> "read", taskId |-> reader.taskId,
                   outcome |-> StreamOutcome(reader.exists),
                   calledAt |-> reader.calledAt,
                   fileExists |-> reader.taskId \in DOMAIN files]
    /\ UNCHANGED <<now, zipTasks, progressCallbacks, files, gen, observed,
                   timers, cleanups, sweep>>

(***************************************************************************)
(* Naming of one archive entry                                             *)
(***************************************************************************)
\* what a title is made of: a dot, a blank, a tab, a slash, a letter and a
\* run of 96 letters
TitleAtoms == {".", " ", "\t", "/", "a", "x96"}

\* the titles an image can carry
Titles == UNION { [1..n -> TitleAtoms] : n \in 0..MaxTitle }

\* the ends of the image URLs: an extension, an upper-case one, none
UrlEnds == { <<".", "jpg">>, <<".", "PNG", "?", "v">>, <<>> }

\* the map callback of generateZip names the entry of a retrieved image
NameEntry ==
    /\ \E title \in Titles, urlEnd \in UrlEnds, index \in 0..1 :
         LET image == [id |-> <<"pin">>, url |-> <<Host, "originals", "/", "a">> \o urlEnd,
                       thumbnail |-> <<>>, title |-> title]
         IN  zresult' = [op |-> "name", title |-> title, index |-> index,
                         name |-> ImageEntryName(image, index)]
    /\ UNCHANGED <<now, zipTasks, progressCallbacks, files, gen, observed,
                   timers, cleanups, sweep, reader>>

(***************************************************************************)
(* ZipService.getStats                                                     *)
(***************************************************************************)
RECURSIVE SumSizes(_, _)
\* totalSize += fs.statSync(task.outputPath).size, a missing file adds nothing
SumSizes(ids, fs) ==
    IF ids = {} THEN 0
    ELSE LET t == CHOOSE x \in ids : TRUE
         IN  (IF t \in DOMAIN fs THEN fs[t] ELSE 0) + SumSizes(ids \ {t}, fs)

\* statistics taken from the download directory instead of the registry
getStatsAllFiles(tasks, fs) ==
    [activeTasks |-> Cardinality(DOMAIN tasks),
     totalSize   |-> SumSizes(DOMAIN fs, fs)]

\* ZipService.getStats: synchronous, computed from zipTasks on every call
getStats(tasks, fs) ==
    [activeTasks |-> Cardinality(DOMAIN tasks),
     totalSize   |-> SumSizes({ tasks[t].outputPath : t \in DOMAIN tasks }, fs)]

\* a call of getStats()
GetStats ==
    /\ zresult' = [op |-> "stats", stats |-> getStats(zipTasks, files)]
    /\ UNCHANGED <<now, zipTasks, progressCallbacks, files, gen, observed,
                   timers, cleanups, sweep, reader>>

(***************************************************************************)
(* Progress registries: updateProgress, getScrapingProgress, cleanup and   *)
(* the GET /api/progress/:taskId handler                                   *)
(***************************************************************************)
\* the task ids of two scrapeBoard calls
ScrapeIds == {HarvestId, "h2"}

\* the ids a client can ask about
ProgressIds == ScrapeIds \cup TaskIds

\* the partial records that scrapeBoard and collectImages pass to updateProgress
ProgressUpdates ==
    { [status |-> "loading", message |-> <<"Loading Pinterest board...">>],
      [currentImages |-> 1, totalImages |-> 1, message |-> <<"Found", "1", "images...">>],
      [status |-> "failed", message |-> <<"Protocol error">>] }

\* a service that keeps one progress record, that of the current harvest
ProgressUpdateCurrent(taskId, updates) ==
    /\ scrapingTasks' = UpdateScrapingProgress(scrapingTasks, HarvestId, updates)
    /\ UNCHANGED <<hpc, images, seenUrls, previousHeight, scrollAttempts,
                   cycles, skipped, faults, hresult>>

\* this.updateProgress(taskId, updates) of a running scrapeBoard call
ProgressUpdate(taskId, updates) ==
    /\ scrapingTasks' = UpdateScrapingProgress(scrapingTasks, taskId, updates)
    /\ UNCHANGED <<hpc, images, seenUrls, previousHeight, scrollAttempts,
                   cycles, skipped, faults, hresult>>

\* PinterestScraperService.getScrapingProgress: the stored record or undefined
getScrapingProgress(tasks, taskId) ==
    IF taskId \in DOMAIN tasks THEN <<tasks[taskId]>> ELSE <<>>

\* the response body built from a scraping snapshot
ScrapingResponse(taskId, p) ==
    [taskId          |-> taskId,
     progress        |-> RoundRatio(p.currentImages, Max(p.totalImages, 1), 100),
     status          |-> IF p.status = "completed" THEN "completed"
                         ELSE IF p.status = "failed" THEN "failed" ELSE "processing",
     message         |-> p.message,
     downloadedCount |-> p.currentImages,
     totalCount      |-> p.totalImages]

\* a handler that builds the response without testing what the services returned
ProgressResponseUnchecked(scraping, zip, taskId) ==
    IF scraping /= <<>>
    THEN [status |-> 200, body |-> ScrapingResponse(taskId, scraping[1])]
    ELSE IF zip.present
         THEN [status |-> 200, body |-> zip]
         ELSE [status |-> 500, body |-> [error |-> "TypeError"]]

\* PinterestController.getProgress: scraping progress first, then ZIP progress
ProgressResponse(scraping, zip, taskId) ==
    IF scraping /= <<>>
    THEN [status |-> 200, body |-> ScrapingResponse(taskId, scraping[1])]
    ELSE IF zip.present
         THEN [status |-> 200, body |-> zip]
         ELSE [status |-> 404, body |-> [error |-> "Task not found"]]

NoRead == [op |-> "none"]

PInit == pread = NoRead

\* GET /api/progress/:taskId; the handler has no await
GetProgress(taskId) ==
    /\ LET scraping == getScrapingProgress(scrapingTasks, taskId)
           zip      == getProgress(zipTasks, taskId)
       IN  pread' = [op       |-> "progress",
                     taskId   |-> taskId,
                     scraping |-> scraping,
                     zip      |-> zip,
                     response |-> ProgressResponse(scraping, zip, taskId)]
    /\ UNCHANGED <<hvars, zvars>>

\* a step of the services: the last read stands while the registries do
KeepRead ==
    pread' = IF <<scrapingTasks, zipTasks>>' = <<scrapingTasks, zipTasks>>
             THEN pread ELSE NoRead

(***************************************************************************)
(* PinterestController.createDownload                                      *)
(***************************************************************************)
\* the boardId of a request body: missing, or the id of a harvested board
BoardIds == { <<>>, <<"board">> }

\* POST /api/download: the board id check, then createZipArchive with an
\* empty images array and imageIds || []; 'No images selected' is answered
\* with 400 by the catch
CreateDownload ==
    \E boardId \in BoardIds, imageIds \in IdLists :
       IF boardId = <<>>
       THEN /\ zresult' = [op |-> "download", boardId |-> boardId, imageIds |-> imageIds,
                           status |-> 400, error |-> "Board ID is required"]
            /\ UNCHANGED <<now, zipTasks, progressCallbacks, files, gen, observed,
                           timers, cleanups, sweep, reader>>
       ELSE IF Len(FilterImages(<<>>, imageIds)) = 0
            THEN /\ zresult' = [op |-> "download", boardId |-> boardId,
                                imageIds |-> imageIds, status |-> 400,
                                error |-> "No images selected for download"]
                 /\ UNCHANGED <<now, zipTasks, progressCallbacks, files, gen, observed,
                                timers, cleanups, sweep, reader>>
            ELSE /\ CreateZipArchive(<<>>, imageIds, TRUE, 0)
                 /\ UNCHANGED <<timers, cleanups, sweep, reader>>

(***************************************************************************)
(* Specifications                                                          *)
(***************************************************************************)
Callers ==
    {Caller("read", ""), Caller("sweep", "")}
    \cup {Caller("timer", t) : t \in TaskIds} \cup {Caller("catch", t) : t \in TaskIds}

\* packaging: one createZipArchive call from its start to its return or throw
PackagingNext ==
    \/ ZipCreate(PackagingImages, IdLists, NoClockReadGap)
    \/ \E t \in TaskIds : \E i \in 1..MaxItems : RetrievalSucceeds(t, i)
    \/ \E t \in TaskIds : \E i \in 1..MaxItems : RetrievalFails(t, i)
    \/ \E t \in TaskIds : ArchiveProgress(t)
    \/ \E t \in TaskIds : ArchiveFinalize(t)
    \/ \E t \in TaskIds : OutputClose(t)
    \/ \E t \in TaskIds : ArchiveError(t)
    \/ \E t \in TaskIds : ZipStat(t)
    \/ \E c \in Callers : CleanupPathExists(c)
    \/ \E c \in Callers : CleanupUnlink(c)
    \/ \E c \in Callers : CleanupDelete(c)

\* the life of a one-image artifact: packaging, clock, reads and reclaims
LifecycleNext ==
    \/ ZipCreate(LifecycleImages, LifecycleIds, ClockReadGaps)
    \/ \E t \in TaskIds : RetrievalSucceeds(t, 1)
    \/ \E t \in TaskIds : RetrievalFails(t, 1)
    \/ \E t \in TaskIds : ArchiveProgress(t)
    \/ \E t \in TaskIds : ArchiveFinalize(t)
    \/ \E t \in TaskIds : OutputClose(t)
    \/ \E t \in TaskIds : ArchiveError(t)
    \/ \E t \in TaskIds : ZipStat(t)
    \/ \E c \in Callers : CleanupPathExists(c)
    \/ \E c \in Callers : CleanupUnlink(c)
    \/ \E c \in Callers : CleanupDelete(c)
    \/ \E tm \in timers : TimerFires(tm)
    \/ CleanupExpired
    \/ CleanupExpiredNext
    \/ \E t \in TaskIds : GetDownloadStream(t)
    \/ StreamPathExists
    \/ StreamOpen
    \/ GetStats
    \/ Tick

\* the one image packaged while the registries are watched
RegistryImages == { <<img>> : img \in { i \in ZipPool : PoolOrder(i) = 1 } }

\* the registries under updates, deletions and reads: two harvests writing
\* their progress, cleanup(), a packaging call that registers its task and
\* reclaims it after an archive error, and the handler
RegistryNext ==
    \/ (\E taskId \in ScrapeIds, updates \in ProgressUpdates :
           ProgressUpdate(taskId, updates)) /\ UNCHANGED zvars /\ KeepRead
    \/ ScraperCleanup /\ UNCHANGED zvars /\ KeepRead
    \/ ZipCreate(RegistryImages, LifecycleIds, NoClockReadGap) /\ UNCHANGED hvars /\ KeepRead
    \/ (\E t \in TaskIds : ArchiveError(t)) /\ UNCHANGED hvars /\ KeepRead
    \/ (\E c \in Callers : CleanupPathExists(c)) /\ UNCHANGED hvars /\ KeepRead
    \/ (\E c \in Callers : CleanupUnlink(c)) /\ UNCHANGED hvars /\ KeepRead
    \/ (\E c \in Callers : CleanupDelete(c)) /\ UNCHANGED hvars /\ KeepRead
    \/ \E taskId \in ProgressIds : GetProgress(taskId)
    \/ CreateDownload /\ UNCHANGED hvars /\ KeepRead

OInit ==
    /\ batch = <<>>
    /\ stalls = <<>>
    /\ clicked = FALSE

\* a scrapeBoard call of at most MaxCollectCycles cycles whose page reads
\* are recorded: the extracted batch, the outcome of each extent comparison
\* and the outcome of the button probe
CollectNext ==
    \/ /\ \/ ScrapeStart
          \/ ScrapeNewPage
          \/ ScrapeGoto
          \/ ScrapeContent
          \/ ScrapeWaitSelector
          \/ HarvestScroll
          \/ ScrapeClose
          \/ ScrapeNotify
          \/ ScrapeDriverFailure
       /\ batch' = <<>>
       /\ clicked' = FALSE
       /\ UNCHANGED stalls
    \/ /\ ScrapeBoardInfo
       /\ batch' = <<>>
       /\ clicked' = FALSE
       /\ stalls' = <<>>
    \/ \E newImages \in Batches :
         /\ HarvestExtractOf(newImages)
         /\ cycles' <= MaxCollectCycles
         /\ batch' = newImages
         /\ clicked' = FALSE
         /\ UNCHANGED stalls
    \/ \E currentHeight \in Extents :
         /\ HarvestMeasureOf(currentHeight)
         /\ batch' = <<>>
         /\ clicked' = FALSE
         /\ stalls' = Append(stalls, currentHeight = previousHeight)
    \/ \E loadMoreClicked \in BOOLEAN :
         /\ HarvestLoadMoreOf(loadMoreClicked)
         /\ batch' = <<>>
         /\ clicked' = loadMoreClicked
         /\ UNCHANGED stalls

\* one scrapeBoard call of up to MaxCycles cycles on a board of one pin;
\* of its page reads, the outcome of the button probe is recorded
LongHarvestNext ==
    \/ /\ \/ ScrapeStart
          \/ ScrapeNewPage
          \/ ScrapeGoto
          \/ ScrapeContent
          \/ ScrapeWaitSelector
          \/ ScrapeBoardInfo
          \/ \E newImages \in OnePinBatches : HarvestExtractOf(newImages)
          \/ HarvestScroll
          \/ HarvestMeasure
          \/ ScrapeClose
          \/ ScrapeNotify
          \/ ScrapeDriverFailure
       /\ clicked' = FALSE
    \/ \E loadMoreClicked \in BOOLEAN :
         /\ HarvestLoadMoreOf(loadMoreClicked)
         /\ clicked' = loadMoreClicked

\* the uuid of a second scrapeBoard call
OtherHarvestId == "h2"

\* two scrapeBoard calls at once: one is followed step by step, the other
\* through what it writes to the service, the progress record of its task id
ConcurrentNext ==
    \/ HNext /\ cycles' <= MaxCollectCycles
    \/ \E updates \in ProgressUpdates : ProgressUpdate(OtherHarvestId, updates)

Init == HInit /\ ZInit /\ PInit /\ OInit

ConcurrentHarvestNext == ConcurrentNext /\ UNCHANGED <<zvars, pvars, ovars>>

\* the naming of one entry
NamingNext == zresult = NoResult /\ NameEntry /\ UNCHANGED <<hvars, pvars, ovars>>

HarvestNext == LongHarvestNext /\ UNCHANGED <<zvars, pvars, batch, stalls>>

ZipNext == PackagingNext /\ UNCHANGED <<hvars, pvars, ovars>>

LifeNext == LifecycleNext /\ UNCHANGED <<hvars, pvars, ovars>>

ProgressNext == RegistryNext /\ UNCHANGED ovars

CollectingNext == CollectNext /\ UNCHANGED <<zvars, pvars>>

SpecHarvest == Init /\ [][HarvestNext]_vars

\* a harvest of at most MaxShutdownCycles cycles, with cleanup() at any moment
ShutdownNext ==
    ScraperNext /\ cycles' <= MaxShutdownCycles /\ UNCHANGED <<zvars, pvars, ovars>>

SpecScraper == Init /\ [][ShutdownNext]_vars

SpecZip == Init /\ [][ZipNext]_vars

SpecLife == Init /\ [][LifeNext]_vars

SpecProgress == Init /\ [][ProgressNext]_vars

SpecCollect == Init /\ [][CollectingNext]_vars

SpecConcurrent == Init /\ [][ConcurrentHarvestNext]_vars

SpecNames == Init /\ [][NamingNext]_vars

(***************************************************************************)
(* Claims about the harvest loop (SpecHarvest, SpecCollect)                *)
(***************************************************************************)

\* C1: collectImages performs at most maxScrollAttempts (50) extract/scroll
\* cycles in total, whatever extents the page reports.
C1_HardIterationCap == cycles <= maxScrollAttempts

\* C2: at every point of a harvest, and in the returned result, no two items
\* of the collection have the same canonical URL, and the seen-URL set is
\* exactly the set of the collection's URLs.
C2_NoDuplicateUrls ==
    /\ \A i, j \in 1..Len(images) : images[i].url = images[j].url => i = j
    /\ seenUrls = { images[i].url : i \in 1..Len(images) }
    /\ hresult.kind = "returned" =>
         \A i, j \in 1..Len(hresult.images) :
            hresult.images[i].url = hresult.images[j].url => i = j

\* a harvest returned two items after at least one extracted image had been
\* dropped as a repeat of an earlier one
C2_Witness ==
    /\ hresult.kind = "returned"
    /\ Len(hresult.images) = 2
    /\ skipped

(***************************************************************************)
(* Claims about packaging (SpecZip)                                        *)
(***************************************************************************)
EntriesOf(g, i) == { k \in 1..Len(g.entries) : g.entries[k].index = i }

\* C3: a failed retrieval never fails the packaging call.  The call throws
\* only on an archive or stat error; once every retrieval has settled each
\* image has exactly one entry, a placeholder carrying the image's URL when
\* its retrieval failed and the image otherwise; a returned call has reported
\* the phase completed last.
C3_FailureIsolation ==
    \A t \in DOMAIN gen :
       LET g == gen[t] IN
       /\ g.pc \in {"catch", "threw"} => g.error \in {"ArchiveError", "StatError"}
       /\ g.promise = "rejected" => g.errored
       /\ \A i \in 1..Len(g.retr) :
            /\ g.retr[i] = "inflight" => EntriesOf(g, i) = {}
            /\ g.retr[i] /= "inflight" =>
                 /\ Cardinality(EntriesOf(g, i)) = 1
                 /\ \A k \in EntriesOf(g, i) :
                      /\ g.entries[k].url = g.images[i].url
                      /\ g.retr[i] = "failed" =>
                           /\ g.entries[k].kind = "placeholder"
                           /\ g.entries[k].name = PlaceholderName(i - 1)
                      /\ g.retr[i] = "ok" => g.entries[k].kind = "image"
       /\ g.pc = "returned" =>
            /\ AllSettled(g)
            /\ Len(g.entries) = Len(g.images)
            /\ t \in DOMAIN observed => observed[t].status = "completed"

\* a call over two images returned although both retrievals failed, and its
\* observer saw the phase completed
C3_Witness ==
    /\ ZipId \in DOMAIN gen
    /\ gen[ZipId].pc = "returned"
    /\ Len(gen[ZipId].images) = 2
    /\ \A i \in 1..2 : gen[ZipId].retr[i] = "failed"
    /\ \A k \in 1..2 : gen[ZipId].entries[k].kind = "placeholder"
    /\ ZipId \in DOMAIN observed
    /\ observed[ZipId].status = "completed"

\* C4: with a non-empty selection of K ids (1 <= K <= N) the artifact has
\* exactly K entries; with an empty selection it has exactly N entries.
C4_SelectionCount ==
    \A t \in DOMAIN gen :
       LET g == gen[t]
           N == Len(g.args.images)
           K == Len(g.args.imageIds)
       IN  g.pc = "returned" =>
             /\ K = 0 => Len(g.entries) = N
             /\ (1 <= K /\ K <= N) => Len(g.entries) = K

\* no image of imgs is selected by imageIds
NoneSelected(imgs, imageIds) ==
    \/ imgs = <<>>
    \/ /\ imageIds /= <<>>
       /\ \A i \in 1..Len(imgs) : \A k \in 1..Len(imageIds) : imageIds[k] /= imgs[i].id

\* C5: a createZipArchive call whose filtered image set is empty fails with
\* the empty-selection error and leaves the task registry, the callback
\* registry and the download directory as they were: a step that reports the
\* empty-selection error changes none of them, and no call whose arguments
\* select nothing gets past the check to register a task.
C5_EmptySelection ==
    [][/\ (zresult'.op = "create" /\ zresult'.outcome = "EmptySelection")
            => UNCHANGED <<zipTasks, progressCallbacks, files, gen>>
       /\ \A t \in DOMAIN gen' \ DOMAIN gen :
            ~NoneSelected(gen'[t].args.images, gen'[t].args.imageIds)]_vars

\* an empty-selection failure was reported while a task was registered
C5_Witness ==
    /\ zresult = [op |-> "create", outcome |-> "EmptySelection"]
    /\ ZipId \in DOMAIN zipTasks
    /\ ZipId \in DOMAIN files

\* C9: no two entries of an artifact have the same name.
C9_UniqueEntryNames ==
    \A t \in DOMAIN gen :
       \A k, m \in 1..Len(gen[t].entries) :
          gen[t].entries[k].name = gen[t].entries[m].name => k = m

\* C10: the retrievals in flight never exceed a configured maximum worker
\* count.  The code configures none; any maximum that throttles the largest
\* batch keeps at least one of its retrievals waiting.
C10_BoundedWorkerPool ==
    \A t \in DOMAIN gen :
       Len(gen[t].images) = MaxItems => Cardinality(InFlight(gen[t])) < MaxItems

(***************************************************************************)
(* Claims about the artifact lifecycle (SpecLife)                          *)
(***************************************************************************)
Completed(t) == t \in DOMAIN gen /\ gen[t].pc = "returned"

\* C6: every getDownloadStream call made on a completed artifact when
\* now > expiresAt fails with Expired, and the backing file is gone after it.
C6_ExpiredRead ==
    (/\ zresult.op = "read"
     /\ Completed(zresult.taskId)
     /\ zresult.calledAt > gen[zresult.taskId].expiresAt)
        => /\ zresult.outcome = "Expired"
           /\ ~zresult.fileExists

\* C7: getDownloadStream fails with NotFound when there is no record for the
\* task id, and when the record is there and unexpired but pathExists found
\* no file; neither case changes the task registry.
C7_NotFound ==
    [][/\ \A t \in TaskIds :
            (GetDownloadStream(t) /\ t \notin DOMAIN zipTasks)
               => /\ zresult'.op = "read" /\ zresult'.outcome = "NotFound"
                  /\ UNCHANGED <<zipTasks, progressCallbacks>>
       /\ (StreamPathExists /\ reader.taskId \notin DOMAIN files) => ~reader'.exists
       /\ (StreamOpen /\ ~reader.exists)
               => /\ zresult'.op = "read" /\ zresult'.outcome = "NotFound"
                  /\ UNCHANGED <<zipTasks, progressCallbacks>>]_vars

\* a read failed with NotFound although the unexpired record was registered
C7_Witness ==
    /\ zresult.op = "read"
    /\ zresult.outcome = "NotFound"
    /\ zresult.taskId \in DOMAIN zipTasks
    /\ now <= zipTasks[zresult.taskId].expiresAt

Reclaimed(t) == t \notin DOMAIN zipTasks /\ t \notin DOMAIN files

\* C8: reclamation is idempotent: no cleanupTask invocation ends in an error,
\* an invocation (scheduled reclaim or sweep) on a task without record starts
\* nothing, no step of an invocation whose task is already reclaimed (record
\* and file gone) changes the registries or the download directory, and an
\* invocation whose file is already absent only removes the record.
C8_ReclaimIdempotent ==
    [][/\ \A c \in DOMAIN cleanups' : cleanups'[c].pc /= "threw"
       /\ \A tm \in timers :
            (TimerFires(tm) /\ tm.taskId \notin DOMAIN zipTasks)
               => UNCHANGED <<zipTasks, progressCallbacks, files, cleanups>>
       /\ ((CleanupExpired \/ CleanupExpiredNext) /\ ZipId \notin DOMAIN zipTasks)
               => UNCHANGED <<zipTasks, progressCallbacks, files, cleanups>>
       /\ \A c \in DOMAIN cleanups :
            /\ ((CleanupPathExists(c) \/ CleanupUnlink(c) \/ CleanupDelete(c))
                   /\ Reclaimed(cleanups[c].taskId))
                  => UNCHANGED <<zipTasks, progressCallbacks, files>>
            /\ ((CleanupPathExists(c) \/ CleanupUnlink(c) \/ CleanupDelete(c))
                   /\ cleanups[c].taskId \notin DOMAIN files)
                  => /\ UNCHANGED files
                     /\ DOMAIN zipTasks' \subseteq DOMAIN zipTasks
                     /\ progressCallbacks' \subseteq progressCallbacks]_vars

\* a reclaim is still running its unlink on a task that another reclaim has
\* already removed, file and record
C8_Witness ==
    \E c \in DOMAIN cleanups :
       /\ cleanups[c].pc = "unlink"
       /\ Reclaimed(cleanups[c].taskId)

(***************************************************************************)
(* Claims about the join of the retrievals (SpecZip)                       *)
(***************************************************************************)
\* C11: archive.finalize() is called only after every retrieval has settled
\* (each image has its entry or its placeholder), and it is called once: a
\* finalized archive has no retrieval in flight, one entry per image, and the
\* finalize step cannot be taken again.
C11_FinalizeAfterJoin ==
    \A t \in DOMAIN gen :
       gen[t].finalized =>
          /\ InFlight(gen[t]) = {}
          /\ \A i \in 1..Len(gen[t].images) : Cardinality(EntriesOf(gen[t], i)) = 1
          /\ ~ENABLED ArchiveFinalize(t)

\* an archive of two images was finalized after one retrieval succeeded and
\* the other failed
C11_Witness ==
    /\ ZipId \in DOMAIN gen
    /\ gen[ZipId].finalized
    /\ Len(gen[ZipId].images) = 2
    /\ gen[ZipId].retr = <<"failed", "ok">>

(***************************************************************************)
(* Claims about the outcome of scrapeBoard (SpecCollect, SpecScraper)      *)
(***************************************************************************)
Ended == hpc \in {"returned", "threw"}

FailedWith(msg) ==
    /\ hresult.kind = "threw"
    /\ hresult.message = msg

\* C12: scrapeBoard fails with the private-board error when the content is
\* detected private, and with a timeout error when the navigation or the
\* selector wait exceeded its bound; no collection is returned in these cases.
C12_FailsOnPrivateOrTimeout ==
    /\ "private" \in faults => FailedWith(PrivateBoardMessage)
    /\ "navigation" \in faults => FailedWith(NavigationTimeoutMessage)
    /\ ("selector" \in faults /\ Ended) => FailedWith(SelectorTimeoutMessage)

\* C12 as amended: the private-board error and the navigation timeout fail
\* the call at once and no collection is returned; a selector wait that
\* exceeded its bound fails nothing: the call never throws the selector
\* timeout, and a call that returned met no fault other than that one.
C12_FailsOnPrivateOrNavigation ==
    /\ "private" \in faults => FailedWith(PrivateBoardMessage)
    /\ "navigation" \in faults => FailedWith(NavigationTimeoutMessage)
    /\ ~FailedWith(SelectorTimeoutMessage)
    /\ hresult.kind = "returned" => faults \subseteq {"selector"}
    /\ hresult.kind = "threw" => "images" \notin DOMAIN hresult

\* a call whose selector wait timed out returned a collection
C12_Witness ==
    /\ hresult.kind = "returned"
    /\ "selector" \in faults
    /\ Len(hresult.images) >= 1

\* C13: at the moment scrapeBoard returns, the stored snapshot of its task
\* has status completed and currentImages = totalImages = the length of the
\* returned collection = the result's totalImages.
C13_CompletedSnapshot ==
    [][(hresult.kind /= "returned" /\ hresult'.kind = "returned")
          => /\ HarvestId \in DOMAIN scrapingTasks'
             /\ scrapingTasks'[HarvestId].status = "completed"
             /\ scrapingTasks'[HarvestId].currentImages = Len(hresult'.images)
             /\ scrapingTasks'[HarvestId].totalImages = Len(hresult'.images)
             /\ hresult'.totalImages = Len(hresult'.images)]_vars

\* a call returned two images and its snapshot says completed, 2 of 2
C13_Witness ==
    /\ hresult.kind = "returned"
    /\ Len(hresult.images) = 2
    /\ HarvestId \in DOMAIN scrapingTasks
    /\ scrapingTasks[HarvestId].status = "completed"
    /\ scrapingTasks[HarvestId].currentImages = 2
    /\ scrapingTasks[HarvestId].totalImages = 2

LoopPositions == {"extract", "scroll", "measure", "loadMore"}

\* C14: when a page call fails inside the harvest loop, the snapshot becomes
\* failed with the error's message, the call throws that error and hands
\* back none of the images collected so far, and nothing is retried: the
\* failed call takes no further step.
C14_LoopFailureIsFatal ==
    [][/\ (hpc \in LoopPositions /\ hpc' \notin LoopPositions \cup {"close"})
            => /\ hpc' = "threw"
               /\ hresult'.kind = "threw"
               /\ "images" \notin DOMAIN hresult'
               /\ HarvestId \in DOMAIN scrapingTasks'
               /\ scrapingTasks'[HarvestId].status = "failed"
               /\ scrapingTasks'[HarvestId].message = hresult'.message
               /\ cycles' = cycles
       /\ hpc = "threw" => UNCHANGED hvars]_vars

\* a call failed in the loop after it had collected two images
C14_Witness ==
    /\ hresult.kind = "threw"
    /\ hresult.message = <<"Protocol error">>
    /\ Len(images) = 2
    /\ cycles >= 2
    /\ scrapingTasks[HarvestId].status = "failed"

(***************************************************************************)
(* Claims about the task record (SpecLife)                                 *)
(***************************************************************************)
\* C15: every task record has expiresAt = createdAt + the 24-hour retention
\* window, and the record of a completed task does not change for as long
\* as it is registered.
C15_RetentionWindow ==
    [][\A t \in DOMAIN zipTasks' :
          /\ zipTasks'[t].expiresAt = zipTasks'[t].createdAt + RetentionMs
          /\ (t \in DOMAIN zipTasks /\ Completed(t)) => zipTasks'[t] = zipTasks[t]]_vars

\* no reclaim of task t is running
NoReclaimRunning(t) == \A c \in DOMAIN cleanups : cleanups[c].taskId /= t

\* C16: every completed artifact is eventually reclaimed, its file deleted
\* from the download directory.  Once the record of a completed artifact is
\* gone and no reclaim of it is running, no later reclaim can find it, so
\* its file has been deleted by then.
C16_FileReclaimed ==
    \A t \in TaskIds :
       (Completed(t) /\ t \notin DOMAIN zipTasks /\ NoReclaimRunning(t))
          => t \notin DOMAIN files

(***************************************************************************)
(* Claims about the packaging progress (SpecZip)                           *)
(***************************************************************************)
\* C17: every snapshot handed to the progress callback with status
\* downloading has its percent in 0..50, and every one with status
\* compressing has its percent in 50..100.
C17_PercentRanges ==
    \A t \in DOMAIN observed :
       /\ observed[t].status = "downloading" =>
             (0 <= observed[t].progress /\ observed[t].progress <= 50)
       /\ observed[t].status = "compressing" =>
             (50 <= observed[t].progress /\ observed[t].progress <= 100)

(***************************************************************************)
(* Claims about the progress registries (SpecProgress)                     *)
(***************************************************************************)
ProgressFields == {"currentImages", "totalImages", "status", "message"}

ProgressDefaults ==
    [currentImages |-> 0, totalImages |-> 0, status |-> "initializing", message |-> <<>>]

\* C18: updateProgress(taskId, updates) sets exactly the given fields, keeps
\* every other field of the stored snapshot (or of the defaults when there
\* was no record), and leaves the records of the other task ids as they
\* were; getScrapingProgress returns the stored snapshot or undefined.
C18_MergeUpdate ==
    [][/\ \A taskId \in ScrapeIds, updates \in ProgressUpdates :
            ProgressUpdate(taskId, updates) =>
               /\ DOMAIN scrapingTasks' = DOMAIN scrapingTasks \cup {taskId}
               /\ DOMAIN scrapingTasks'[taskId] = ProgressFields
               /\ \A f \in ProgressFields :
                     scrapingTasks'[taskId][f] =
                        IF f \in DOMAIN updates THEN updates[f]
                        ELSE IF taskId \in DOMAIN scrapingTasks
                             THEN scrapingTasks[taskId][f]
                             ELSE ProgressDefaults[f]
               /\ \A other \in DOMAIN scrapingTasks \ {taskId} :
                     scrapingTasks'[other] = scrapingTasks[other]
       /\ \A taskId \in ProgressIds :
            GetProgress(taskId) =>
               /\ taskId \in DOMAIN scrapingTasks =>
                     pread'.scraping = <<scrapingTasks[taskId]>>
               /\ taskId \notin DOMAIN scrapingTasks => pread'.scraping = <<>>]_vars

\* the record of one harvest holds fields written by two different updates
\* while the other harvest has its own record
C18_Witness ==
    /\ DOMAIN scrapingTasks = ScrapeIds
    /\ scrapingTasks[HarvestId].status = "loading"
    /\ scrapingTasks[HarvestId].currentImages = 1
    /\ scrapingTasks["h2"].status = "failed"
    /\ scrapingTasks["h2"].currentImages = 0

\* C19: a progress read changes no registry, and a read of the task id that
\* was read last, with no update, deletion or reclaim in between, returns
\* what the last read returned.
C19_ReadsRepeatable ==
    [][\A taskId \in ProgressIds :
          GetProgress(taskId) =>
             /\ UNCHANGED <<scrapingTasks, zipTasks, progressCallbacks, files>>
             /\ (pread.op = "progress" /\ pread.taskId = taskId) => pread' = pread]_vars

\* the read of the package task still stands after the archive failed and
\* the reclaim of the task has started
C19_Witness ==
    /\ pread.op = "progress"
    /\ pread.taskId = ZipId
    /\ pread.response.status = 200
    /\ ZipId \in DOMAIN gen
    /\ gen[ZipId].errored

\* C20: a progress read never raises an error, whenever it runs relative to
\* cleanup() or to a cleanupTask in progress: it answers 200 with the
\* fields of the stored snapshot when a registry has the task, and 404 (absent)
\* when none has.
C20_ReadRacesDeletion ==
    [][\A taskId \in ProgressIds :
          GetProgress(taskId) =>
             /\ pread'.response.status \in {200, 404}
             /\ pread'.response.status = 200
                   <=> taskId \in DOMAIN scrapingTasks \cup DOMAIN zipTasks
             /\ taskId \in DOMAIN scrapingTasks =>
                   /\ pread'.response.body.message = scrapingTasks[taskId].message
                   /\ pread'.response.body.downloadedCount
                         = scrapingTasks[taskId].currentImages
                   /\ pread'.response.body.totalCount = scrapingTasks[taskId].totalImages]_vars

\* a read answered 404 for a package task that a failed call had registered
\* and reclaimed
C20_Witness ==
    /\ pread.op = "progress"
    /\ pread.taskId = ZipId
    /\ pread.response.status = 404
    /\ ZipId \in DOMAIN gen
    /\ gen[ZipId].pc = "threw"

(***************************************************************************)
(* Claims about terminal snapshots (SpecScraper)                           *)
(***************************************************************************)
TerminalPhases == {"completed", "failed"}

\* C21: once the snapshot of a harvest task has status completed or failed,
\* no later step of the same scrapeBoard call changes its status,
\* currentImages or totalImages.
C21_TerminalSnapshotFrozen ==
    [][(/\ hpc' /= hpc
        /\ HarvestId \in DOMAIN scrapingTasks
        /\ scrapingTasks[HarvestId].status \in TerminalPhases)
          => /\ HarvestId \in DOMAIN scrapingTasks'
             /\ scrapingTasks'[HarvestId].status = scrapingTasks[HarvestId].status
             /\ scrapingTasks'[HarvestId].currentImages
                    = scrapingTasks[HarvestId].currentImages
             /\ scrapingTasks'[HarvestId].totalImages
                    = scrapingTasks[HarvestId].totalImages]_vars

(***************************************************************************)
(* Claims about reads of an artifact under construction (SpecLife)         *)
(***************************************************************************)
\* C22: getDownloadStream returns a stream over the output file of a task
\* only when the packaging of that task has finalized its archive and
\* completed; while it has not, no stream is handed out.
C22_NoStreamBeforeFinalize ==
    (zresult.op = "read" /\ zresult.outcome = "stream")
        => /\ zresult.taskId \in DOMAIN gen
           /\ gen[zresult.taskId].finalized
           /\ Completed(zresult.taskId)

(***************************************************************************)
(* Claims about the collection (SpecCollect)                               *)
(***************************************************************************)
LowResTokens == {"236x", "474x"}

\* two raw URLs that are equal except where both carry a low-resolution token
DifferOnlyInToken(a, b) ==
    /\ Len(a) = Len(b)
    /\ \A k \in 1..Len(a) : a[k] = b[k] \/ {a[k], b[k]} \subseteq LowResTokens

\* C23: the URL of a collected item is its raw URL with the low-resolution
\* token (236x or 474x) replaced by originals, and the raw URL itself when
\* it has no such token; the replacement precedes the dedup comparison, so
\* the collection never holds two items whose raw URLs differ only in the
\* low-resolution token.
C23_HighResBeforeDedup ==
    /\ \A i \in 1..Len(images) :
         LET raw == images[i].thumbnail
             url == images[i].url
         IN  IF \E tok \in LowResTokens : Includes(raw, tok)
             THEN /\ Len(url) = Len(raw)
                  /\ \A k \in 1..Len(raw) :
                       url[k] = IF raw[k] \in LowResTokens THEN "originals" ELSE raw[k]
             ELSE url = raw
    /\ \A i, j \in 1..Len(images) :
         DifferOnlyInToken(images[i].thumbnail, images[j].thumbnail) => i = j

\* the page showed the 474x rendition of the image that was collected from
\* its 236x rendition, and the collection still holds one item
C23_Witness ==
    /\ Len(images) = 1
    /\ Includes(images[1].thumbnail, "236x")
    /\ Includes(images[1].url, "originals")
    /\ \E k \in 1..Len(batch) :
         /\ Includes(batch[k].thumbnail, "474x")
         /\ DifferOnlyInToken(batch[k].thumbnail, images[1].thumbnail)

IsPrefix(a, b) == Len(a) <= Len(b) /\ SubSeq(b, 1, Len(a)) = a

\* the items of an extracted batch that are discovered by it, in the order
\* of the batch: the URL was not seen before the batch and does not occur
\* earlier in the batch
FirstDiscovered(seen, b) ==
    LET idx    == { k \in 1..Len(b) :
                      /\ b[k].url \notin seen
                      /\ \A j \in 1..(k - 1) : b[j].url /= b[k].url }
        nth(i) == CHOOSE k \in idx : Cardinality({ j \in idx : j < k }) = i - 1
    IN  [i \in 1..Cardinality(idx) |-> b[nth(i)]]

\* C24: the collection is ordered by first discovery: no step moves or
\* removes an item that is in it, and a cycle appends the items its batch
\* discovered, in the order of the batch, after everything found earlier.
C24_DiscoveryOrder ==
    [][/\ IsPrefix(images, images')
       /\ SubSeq(images', Len(images) + 1, Len(images'))
             = IF hpc = "extract" THEN FirstDiscovered(seenUrls, batch') ELSE <<>>]_vars

\* the second cycle saw the image found in the first one after a new image:
\* the collection has the older image first
C24_Witness ==
    /\ cycles = 2
    /\ Len(images) = 2
    /\ Len(batch) = 2
    /\ batch[1].url = images[2].url
    /\ batch[2].url = images[1].url

C26_CompletedIsReadable ==
    \A t \in DOMAIN zipTasks :
        (/\ t \in DOMAIN observed
         /\ observed[t].status = "completed"
         /\ observed[t].progress = 100) =>
            LET p        == getProgress(zipTasks, t)
                response == ProgressResponse(<<>>, p, t)
            IN  /\ p.present
                /\ p.status = "completed"
                /\ p.progress = 100
                /\ response.status = 200
                /\ response.body.status = "completed"
                /\ response.body.progress = 100

(***************************************************************************)
(* Claims about concurrent harvests (SpecConcurrent)                       *)
(***************************************************************************)
\* C27: two harvest calls have different task ids and do not disturb each
\* other: a step of one call leaves the progress record of the other as it
\* is, and a step of the other call changes neither the progress record,
\* nor the seen-URL set, nor the collection of the first.
C27_HarvestsIsolated ==
    [][/\ HarvestId /= OtherHarvestId
       /\ hpc' /= hpc =>
             getScrapingProgress(scrapingTasks', OtherHarvestId)
               = getScrapingProgress(scrapingTasks, OtherHarvestId)
       /\ hpc' = hpc =>
             /\ getScrapingProgress(scrapingTasks', HarvestId)
                  = getScrapingProgress(scrapingTasks, HarvestId)
             /\ images' = images
             /\ seenUrls' = seenUrls]_vars

\* one call completed with two images while the other one, which has found
\* one image, failed
C27_Witness ==
    /\ DOMAIN scrapingTasks = {HarvestId, OtherHarvestId}
    /\ scrapingTasks[HarvestId].status = "completed"
    /\ scrapingTasks[HarvestId].currentImages = 2
    /\ Len(images) = 2
    /\ scrapingTasks[OtherHarvestId].status = "failed"
    /\ scrapingTasks[OtherHarvestId].currentImages = 1

(***************************************************************************)
(* Claims about the stall counter (SpecHarvest, SpecCollect)               *)
(***************************************************************************)
\* the step is a button probe that returned: the loop goes on or breaks
ProbeReturned == hpc = "loadMore" /\ hpc' \in {"extract", "close"}

\* C28: in a cycle where the extent is unchanged and the "load more" button
\* was clicked, the stall counter is reset to zero and the loop goes on
\* with another cycle.
C28_ClickResetsCounter ==
    [][(ProbeReturned /\ clicked')
          => /\ scrollAttempts' = 0
             /\ hpc' = "extract"]_vars

\* C28 as amended: in a cycle where the extent is unchanged and the button
\* was clicked, the stall counter keeps the value it was incremented to,
\* and the loop goes on with another cycle if that value is below
\* maxScrollAttempts and ends otherwise.
C28_ClickKeepsCounter ==
    [][(ProbeReturned /\ clicked')
          => /\ scrollAttempts' = scrollAttempts
             /\ scrollAttempts' >= 1
             /\ hpc' = IF scrollAttempts < maxScrollAttempts
                        THEN "extract" ELSE "close"]_vars

\* the button was clicked in a stalled cycle: the counter is still 1 and the
\* next cycle is about to start
C28_Witness ==
    /\ clicked
    /\ hpc = "extract"
    /\ scrollAttempts = 1

\* C29: the loop ends in the current cycle whenever the extent is unchanged
\* and either no button was clicked, or the button had already been clicked
\* in the stalled cycle before this one and the extent is still unchanged.
C29_EndsOnSecondStall ==
    [][ProbeReturned
          => ((~clicked' \/ scrollAttempts >= 2) => hpc' = "close")]_vars

\* C29 as amended: in a cycle where the extent is unchanged the loop ends
\* exactly when no button was clicked or the stall counter has reached
\* maxScrollAttempts; a button that is clicked again after an earlier
\* stalled cycle keeps the loop going.
C29_EndsOnNoClickOrCap ==
    [][ProbeReturned
          => (hpc' = "close" <=> (~clicked' \/ scrollAttempts >= maxScrollAttempts))]_vars

\* the fiftieth stalled cycle in a row: the button was clicked again and
\* the loop ended
C29_Witness ==
    /\ clicked
    /\ hpc = "close"
    /\ scrollAttempts = maxScrollAttempts

\* the number of stalled cycles at the end of the measured ones
TrailingStalls(s) ==
    CHOOSE k \in 0..Len(s) :
        /\ \A i \in (Len(s) - k + 1)..Len(s) : s[i]
        /\ k < Len(s) => ~s[Len(s) - k]

\* C30: after every cycle the stall counter is the number of cycles, counted
\* back from the last one without a gap, whose extent after the scroll
\* equalled the extent before it; only a cycle whose extent changed takes
\* the counter back to zero.
C30_CounterIsTrailingStalls ==
    [][/\ scrollAttempts' = TrailingStalls(stalls')
       /\ (scrollAttempts > 0 /\ scrollAttempts' = 0)
             => /\ Len(stalls') = Len(stalls) + 1
                /\ ~stalls'[Len(stalls')]]_vars

\* two stalled cycles, the button clicked in both, then the extent changed:
\* the counter is back at zero
C30_Witness ==
    /\ stalls = <<TRUE, TRUE, FALSE>>
    /\ scrollAttempts = 0

(***************************************************************************)
(* Claims about entry names (SpecNames)                                    *)
(***************************************************************************)
RECURSIVE NameLength(_)
\* the number of characters of a name
NameLength(name) ==
    IF name = <<>> THEN 0 ELSE CharLen(Head(name)) + NameLength(Tail(name))

\* C31: the name that sanitizeFilename gives to an entry has no path
\* separator, no other hostile character, no control character and no
\* whitespace, does not start with a dot, and is at most 100 characters
\* long, whatever the title and the extension of the image.
C31_SanitizedNames ==
    zresult.op = "name" =>
        /\ \A k \in 1..Len(zresult.name) :
             zresult.name[k] \notin HostileAtoms \cup SpaceAtoms
        /\ zresult.name /= <<>> => zresult.name[1] /= "."
        /\ NameLength(zresult.name) <= FilenameLimit

\* a title that starts with a dot, goes on with a slash and is 98
\* characters long: the name was cut at 100 characters
C31_Witness ==
    /\ zresult.op = "name"
    /\ zresult.title = <<".", "/", "x96">>
    /\ NameLength(zresult.name) = FilenameLimit
    /\ zresult.name[1] = "_"

\* C32: once the extent stops changing, the loop ends within
\* maxScrollAttempts further cycles, whatever the button probe returns:
\* every stalled cycle adds one to the stall counter, the probe leaves the
\* counter as it is, and no cycle starts with the counter at
\* maxScrollAttempts.
C32_StalledHarvestEnds ==
    [][/\ (hpc = "measure" /\ hpc' = "loadMore") => scrollAttempts' = scrollAttempts + 1
       /\ hpc = "loadMore" => scrollAttempts' = scrollAttempts
       /\ hpc' = "extract" => scrollAttempts' < maxScrollAttempts
       /\ scrollAttempts' <= maxScrollAttempts]_vars

\* the extent changed in the first cycle and never again: the loop ended
\* after fifty more cycles
C32_Witness ==
    /\ hpc = "close"
    /\ cycles = maxScrollAttempts + 1
    /\ scrollAttempts = maxScrollAttempts

UrlsOf(seq) == { seq[k].url : k \in 1..Len(seq) }

\* the first item of a sequence that has the given URL
FirstWithUrl(seq, url) ==
    seq[CHOOSE k \in 1..Len(seq) :
          /\ seq[k].url = url
          /\ \A j \in 1..(k - 1) : seq[j].url /= url]

\* C33: no extracted item is lost: a cycle makes the URLs of the collection
\* the URLs it had together with the URLs of the extracted batch, the item
\* kept for a URL is the first one extracted with it, and the rest of the
\* loop leaves the collection as it is, so that collectImages returns the
\* union of all batches.
C33_NoItemLost ==
    [][/\ (hpc = "extract" /\ hpc' = "scroll") =>
            /\ UrlsOf(images') = UrlsOf(images) \cup UrlsOf(batch')
            /\ \A k \in 1..Len(images') :
                 images'[k] = IF images'[k].url \in UrlsOf(images)
                              THEN FirstWithUrl(images, images'[k].url)
                              ELSE FirstWithUrl(batch', images'[k].url)
       /\ hpc \in {"scroll", "measure", "loadMore"} => images' = images]_vars

\* the second cycle extracted a new image and another rendition of the
\* image found in the first cycle: the collection holds the new image and
\* the first rendition
C33_Witness ==
    /\ hpc = "scroll"
    /\ cycles = 2
    /\ Len(images) = 2
    /\ Len(batch) = 2
    /\ batch[1].url = images[1].url
    /\ batch[1] /= images[1]
    /\ batch[2] = images[2]

\* C34: in every stored snapshot of the harvest 0 <= currentImages <=
\* totalImages, so the percent of the progress response is within 0..100,
\* and currentImages never decreases during the harvest: a stored snapshot
\* never shows less than the count stored by the last cycle, which is the
\* length of the collection.
C34_CountsNeverDecrease ==
    HarvestId \in DOMAIN scrapingTasks =>
        LET p == scrapingTasks[HarvestId]
        IN  /\ 0 <= p.currentImages
            /\ p.currentImages <= p.totalImages
            /\ ScrapingResponse(HarvestId, p).progress \in 0..100
            /\ p.currentImages >= Len(images)

\* the place of a phase in initializing -> loading -> scrolling -> completed
PhaseRank(status) ==
    CASE status = "initializing" -> 0
      [] status = "loading"      -> 1
      [] status = "scrolling"    -> 2
      [] OTHER                   -> 3

\* C35: the phase of the stored snapshot only moves forward along
\* initializing -> loading -> scrolling -> completed, with failed reachable
\* from a non-terminal phase only; it never moves back, also when cleanup()
\* clears the registry in flight: a step between two stored snapshots does
\* not lower the phase or leave a terminal one, and a snapshot stored again
\* by the running loop, which had stored scrolling, is not in an earlier
\* phase.
C35_PhaseMovesForward ==
    [][/\ (HarvestId \in DOMAIN scrapingTasks /\ HarvestId \in DOMAIN scrapingTasks') =>
            /\ PhaseRank(scrapingTasks'[HarvestId].status)
                   >= PhaseRank(scrapingTasks[HarvestId].status)
            /\ scrapingTasks[HarvestId].status \in TerminalPhases =>
                   scrapingTasks'[HarvestId].status = scrapingTasks[HarvestId].status
       /\ (/\ HarvestId \notin DOMAIN scrapingTasks
           /\ HarvestId \in DOMAIN scrapingTasks'
           /\ hpc \in {"extract", "scroll", "measure", "loadMore"}) =>
            PhaseRank(scrapingTasks'[HarvestId].status) >= PhaseRank("scrolling")]_vars

\* C36: when container generation failed with an archive error after the
\* task was registered, createZipArchive has re-raised the error and left no
\* trace of the task: no record, no progress callback, no output file and
\* no reclaim timer.
C36_FailedCreateLeavesNoTrace ==
    \A t \in DOMAIN gen :
       (gen[t].pc = "threw" /\ gen[t].error = "ArchiveError") =>
          /\ t \notin DOMAIN zipTasks
          /\ t \notin progressCallbacks
          /\ t \notin DOMAIN files
          /\ \A tm \in timers : tm.taskId /= t

\* C37: no artifact file is orphaned: after any sequence of create, read,
\* sweep and reclaim steps, also when a file deletion failed, every file in
\* the download directory has a task record in the registry.
C37_NoOrphanFile == \A t \in DOMAIN files : t \in DOMAIN zipTasks

\* C38: under any interleaving of getDownloadStream with the scheduled
\* reclaim or the sweep of the same task, a read that returns a stream
\* returns it over a backing file that exists at that moment; any other
\* read fails with NotFound or Expired.  Stated for the reads of a completed
\* artifact, which only the scheduled reclaim, the sweep and an expired read
\* reclaim.
C38_StreamOverExistingFile ==
    (zresult.op = "read" /\ Completed(zresult.taskId)) =>
        /\ zresult.outcome \in {"stream", "NotFound", "Expired"}
        /\ zresult.outcome = "stream" => zresult.fileExists

\* C39: in the final completed snapshot of a packaging task, downloadedCount
\* is the number of items whose retrieval succeeded, so downloadedCount
\* plus the number of placeholder entries is totalCount.
C39_DoneCountIsSuccesses ==
    \A t \in DOMAIN observed :
       (t \in DOMAIN gen /\ gen[t].closed /\ observed[t].status = "completed") =>
          LET g == gen[t]
              succeeded    == { i \in 1..Len(g.retr) : g.retr[i] = "ok" }
              placeholders == { k \in 1..Len(g.entries) : g.entries[k].kind = "placeholder" }
          IN  /\ observed[t].downloadedCount = Cardinality(succeeded)
              /\ observed[t].downloadedCount + Cardinality(placeholders)
                     = observed[t].totalCount

\* the ids that extractImagesFromPage gives to harvested images
HarvestedIds == UNION { { b[k].id : k \in 1..Len(b) } : b \in Batches }

\* C40: a createDownload request with a board id and a non-empty list of
\* image ids that were harvested for the board registers a packaging task
\* and is answered with the artifact handle, not with the empty-selection
\* error.
C40_DownloadRegistersTask ==
    (/\ zresult.op = "download"
     /\ zresult.boardId /= <<>>
     /\ zresult.imageIds /= <<>>
     /\ \A k \in 1..Len(zresult.imageIds) : zresult.imageIds[k] \in HarvestedIds)
        => /\ zresult.status = 200
           /\ ZipId \in DOMAIN zipTasks

====
